---- MODULE Spec2Model ----
(***************************************************************************)
(* libinstrument: the tracing runtime.                                     *)
(*                                                                         *)
(* The model follows src/src/tracer.cpp (the two instrumentation hooks,    *)
(* plugin dispatch, trace rendering), src/src/thread.cpp (called,          *)
(* returned, unwind), src/src/process.cpp (the thread and module lists)    *)
(* and the containers src/include/stack.hpp and src/include/list.hpp.      *)
(*                                                                         *)
(* A simulated stack is a sequence whose first element is the top          *)
(* (stack::m_top); stack offset i of the code is index i + 1 here.         *)
(* A list<T> is a sequence in slot order; list offset i is index i + 1.    *)
(***************************************************************************)
EXTENDS Integers, Sequences, FiniteSets, TLC

VARIABLES
  s_iface,      \* tracer::s_iface != NULL
  m_symtabs,    \* process::m_symtabs, the module list
  m_threads,    \* process::m_threads, the thread list
  m_plugins,    \* tracer::m_plugins, the plugin list
  s_lock,       \* tracer::s_lock, a recursive mutex: its owner and hold count
  pc,           \* control point of every OS thread
  hook,         \* locals of the hook invocation an OS thread is executing
  real,         \* the real call stack of every OS thread (top first)
  exc,          \* std::uncaught_exception() of every OS thread
  cycle,        \* history: where each OS thread is in a throw/catch cycle
  cblog,        \* plugin callbacks invoked by the current hook invocation
  out,          \* result and buffer of the last trace/unwind call per thread
  exitStatus,   \* <<status passed to exit()>>, Running while the process lives
  WITH_UNRESOLVED, \* the library was built with WITH_UNRESOLVED defined
  s_global_lock    \* util::s_global_lock, a recursive mutex

vars == <<s_iface, m_symtabs, m_threads, m_plugins, s_lock,
          pc, hook, real, exc, cycle, cblog, out, exitStatus,
          WITH_UNRESOLVED, s_global_lock>>

----------------------------------------------------------------------------
(* Bounds of the model *)

MaxDepth == 3       \* deepest real call stack the host program builds

MaxPlugins == 3     \* most plugins the host registers

MaxHold == 2        \* most nested tracer::lock() calls made by the host

MaxModules == 3     \* most modules the host adds with process::add_module

MaxObjects == 2     \* most shared objects the dynamic loader reports

(* Program constants *)

THREAD_INIT == 1

THREAD_START == 4

THREAD_EXIT == 8

EXIT_FAILURE == 1

----------------------------------------------------------------------------
(* Values *)

NULL == "NULL"

NoThread == 0

\* exitStatus while the process lives; <<status>> once exit(status) was called
Running == <<>>

anonymous == "anonymous"

\* The host program: functions 1 (f) and 2 (g) are defined by the
\* executable, 3 (h) by a shared object. Callees(caller) are the functions
\* called from inside function caller (0: from code that is not
\* instrumented): f calls g, g calls h, h calls f, and code that is not
\* instrumented calls f and h.
Callees(caller) == IF caller = 0 THEN {1, 3} ELSE {(caller % 3) + 1}

\* The return address of a call made from inside function caller (0 when
\* the caller is not an instrumented function).
SiteOf(caller) == 10 * caller + 5

\* The symbol tables the binary-format backend yields for the two modules.
ExeTable == [path |-> "exe", base |-> 0,
             table |-> << [addr |-> 1, name |-> "f"],
                          [addr |-> 2, name |-> "g"] >>]

LibTable == [path |-> "lib", base |-> 3,
             table |-> << [addr |-> 3, name |-> "h"] >>]

\* A second shared object, given a load base that makes its first symbol
\* fall on the address of h
Lib2Table == [path |-> "lib2", base |-> 3,
              table |-> << [addr |-> 3, name |-> "k"],
                           [addr |-> 4, name |-> "m"] >>]

\* What the symtab constructor builds for the (path, base) pairs the host
\* passes to process::add_module
Images == {ExeTable, LibTable, Lib2Table}

\* The addresses the host resolves
SymAddrs == 1..5

\* What the symtab constructor can build for the executable: its function
\* symbols, or an empty table when none of its symbols is a function
ExeImages == {ExeTable, [ExeTable EXCEPT !.table = <<>>]}

----------------------------------------------------------------------------
(* stack<call> *)

\* stack::push
push(s, c) == <<c>> \o s

\* stack::pop
pop_mut(s) == IF Len(s) > 1 THEN <<Head(s)>> \o Tail(Tail(s)) ELSE <<>>

pop_unguarded(s) == IF Len(s) # 0 THEN Tail(s) ELSE <<[addr |-> 0, site |-> 0, name |-> NULL]>>

pop(s) == IF Len(s) # 0 THEN Tail(s) ELSE s

\* stack::size
size(s) == Len(s)

\* stack::node_at / stack::peek: TRUE when offset i is out of bounds and the
\* call throws
peek_throws(s, i) == i >= Len(s)

peek(s, i) == s[i + 1]

----------------------------------------------------------------------------
(* list<T> *)

\* list::at: TRUE when offset i is out of bounds and the call throws
at_throws(l, i) == i >= Len(l)

at_mut(l, i) == l[Len(l) - i]

at(l, i) == l[i + 1]

\* list::add
add(l, d) == Append(l, d)

\* list::detach / list::remove on a list that is not ordered: the gap left
\* at index i is filled with the last item
detach(l, i) ==
  IF i = Len(l) THEN SubSeq(l, 1, Len(l) - 1)
  ELSE [SubSeq(l, 1, Len(l) - 1) EXCEPT ![i] = l[Len(l)]]

----------------------------------------------------------------------------
(* thread *)

\* thread::thread(const i8*) / thread::thread(pthread_t, const i8*)
new_thread(id, nm) ==
  [handle |-> id, name |-> nm, stack |-> <<>>, lag |-> 0,
   status |-> THREAD_INIT]

\* call::call
new_call(addr, site) == [addr |-> addr, site |-> site, name |-> NULL]

\* thread::called
called_mut(thr, uncaught, addr, site) ==
  [thr EXCEPT !.stack = push(thr.stack, new_call(addr, site)),
              !.status = THREAD_START]

called(thr, uncaught, addr, site) ==
  IF uncaught
  THEN [thr EXCEPT !.lag = thr.lag - 1]
  ELSE [thr EXCEPT !.stack = push(thr.stack, new_call(addr, site)),
                   !.status = THREAD_START]

\* thread::returned
returned_mut(thr, uncaught) == [thr EXCEPT !.stack = pop(thr.stack)]

returned(thr, uncaught) ==
  IF uncaught
  THEN [thr EXCEPT !.lag = thr.lag + 1]
  ELSE [thr EXCEPT !.stack = pop(thr.stack)]

\* thread::unwind
RECURSIVE unwind(_)
unwind_mut(thr) == thr

unwind(thr) ==
  IF thr.lag > 0
  THEN unwind([thr EXCEPT !.stack = pop(thr.stack), !.lag = thr.lag - 1])
  ELSE thr

----------------------------------------------------------------------------
(* symtab and process: the module list *)

\* symtab::lookup / symtab::addr2name: the name of the first symbol of the
\* table at addr, NULL when there is none
RECURSIVE addr2name(_, _)
addr2name(table, addr) ==
  IF table = <<>> THEN NULL
  ELSE IF Head(table).addr = addr THEN Head(table).name
  ELSE addr2name(Tail(table), addr)

\* symtab::exists
exists(tab, addr) == addr2name(tab.table, addr) # NULL

\* process::lookup: first matching symbol name across the modules
RECURSIVE lookup(_, _)
lookup(symtabs, addr) ==
  IF symtabs = <<>> THEN NULL
  ELSE IF addr2name(Head(symtabs).table, addr) # NULL
       THEN addr2name(Head(symtabs).table, addr)
  ELSE lookup(Tail(symtabs), addr)

\* process::ilookup (declared as inverse_lookup): the first module whose
\* table holds addr, as <<path, base>>; <<NULL, 0>> when unresolved
RECURSIVE ilookup(_, _)
ilookup(symtabs, addr) ==
  IF symtabs = <<>> THEN <<NULL, 0>>
  ELSE IF exists(Head(symtabs), addr)
       THEN <<Head(symtabs).path, Head(symtabs).base>>
  ELSE ilookup(Tail(symtabs), addr)

\* process::module_count
module_count(symtabs) == Len(symtabs)

\* process::symbol_count
RECURSIVE symbol_count(_)
symbol_count(symtabs) ==
  IF symtabs = <<>> THEN 0
  ELSE Len(Head(symtabs).table) + symbol_count(Tail(symtabs))

\* tracer::interface: TRUE when the interface object is returned, FALSE when
\* the call returns NULL
interface_mut == s_iface

interface ==
  /\ s_iface
  /\ module_count(m_symtabs) # 0
  /\ symbol_count(m_symtabs) # 0

----------------------------------------------------------------------------
(* process: the thread list *)

find_thread_mut(threads, id, i) == IF i > Len(threads) THEN 0 ELSE i

\* Offset + 1 of the first entry of the thread list with the given handle,
\* 0 when there is none (the loops of process::current_thread and
\* process::get_thread(pthread_t))
RECURSIVE find_thread(_, _, _)
find_thread(threads, id, i) ==
  IF i > Len(threads) THEN 0
  ELSE IF threads[i].handle = id THEN i
  ELSE find_thread(threads, id, i + 1)

\* process::current_thread: the thread list after the call made by OS
\* thread self (a new entry is appended when none has its handle)
current_thread_mut(threads, self) == Append(threads, new_thread(self, NULL))

current_thread(threads, self) ==
  IF find_thread(threads, self, 1) # 0 THEN threads
  ELSE Append(threads, new_thread(self, NULL))

\* The entry process::current_thread returns to OS thread self
cur(threads, self) == find_thread(current_thread(threads, self), self, 1)

\* process::cleanup_thread: the first entry with the handle is removed
cleanup_thread(threads, id) ==
  IF find_thread(threads, id, 1) = 0 THEN threads
  ELSE detach(threads, find_thread(threads, id, 1))

\* is_thread_started / is_thread_finished
is_thread_started_mut(x) == FALSE

is_thread_started(x) == x = THREAD_START

is_thread_finished_mut(x) == x = THREAD_INIT

is_thread_finished(x) == x = THREAD_EXIT

\* process::cleanup_zombie_threads, its loop begun at index i: an entry
\* with an empty stack that has started or finished is removed and the
\* index is examined again
RECURSIVE cleanup_zombie_threads(_, _)
cleanup_zombie_threads(threads, i) ==
  IF i > Len(threads) THEN threads
  ELSE IF size(threads[i].stack) > 0
       THEN cleanup_zombie_threads(threads, i + 1)
  ELSE IF is_thread_started(threads[i].status)
          \/ is_thread_finished(threads[i].status)
       THEN cleanup_zombie_threads(detach(threads, i), i)
  ELSE cleanup_zombie_threads(threads, i + 1)

----------------------------------------------------------------------------
(* tracer::s_lock *)

\* tracer::lock (pthread_mutex_lock on a recursive mutex)
lock(l, t) == [owner |-> t, count |-> l.count + 1]

\* tracer::unlock
unlock_mut(l, t) == l

unlock(l, t) ==
  [owner |-> IF l.count = 1 THEN NoThread ELSE l.owner, count |-> l.count - 1]

\* pthread_mutex_lock returns at once for OS thread t
can_lock(t) == s_lock.owner \in {NoThread, t}

\* Hold count of OS thread t
hold(t) == IF s_lock.owner = t THEN s_lock.count ELSE 0

----------------------------------------------------------------------------
(* Trace rendering *)

\* The header line "at '<name>' thread (0x<handle>) {\r\n"
header_line(thr) ==
  [k |-> "header", txt |-> IF thr.name = NULL THEN anonymous ELSE thr.name,
   src |-> thr.handle]

\* The closing line "}\r\n"
closing_line == [k |-> "closing", txt |-> "}", src |-> NULL]

\* One pass of the frame loop of tracer::trace for the frame at stack offset
\* i: the line appended to the buffer (its text and the request made to the
\* source-location resolver addr2line, NULL when none is made)
frame_line(symtabs, stack, i) ==
  LET c    == peek(stack, i)
      nm   == IF c.name = NULL THEN lookup(symtabs, c.addr) ELSE c.name
      prev == i + 1
      mod  == ilookup(symtabs, peek(stack, prev).addr)
  IN  [k   |-> "frame",
       txt |-> IF nm # NULL THEN nm
               ELSE IF WITH_UNRESOLVED THEN "UNRESOLVED" ELSE "",
       src |-> IF prev < size(stack) /\ mod[1] # NULL
               THEN <<mod[1], c.site - mod[2]>>
               ELSE NULL]

frame_cache_mut(symtabs, stack, i) ==
  LET c  == peek(stack, i)
      nm == IF c.name = NULL THEN lookup(symtabs, c.addr) ELSE c.name
  IN  [stack EXCEPT ![i + 1].name = IF nm # NULL THEN nm ELSE "UNRESOLVED"]

\* ... and the stack after the pass (call::set_name caches a resolved name)
frame_cache(symtabs, stack, i) ==
  LET c  == peek(stack, i)
      nm == IF c.name = NULL THEN lookup(symtabs, c.addr) ELSE c.name
  IN  IF nm # NULL THEN [stack EXCEPT ![i + 1].name = nm] ELSE stack

\* The frame loop "for (i32 i = from; i >= 0; i--)" of tracer::trace, begun
\* at offset i with buffer buf: the final stack and buffer
RECURSIVE frames(_, _, _, _)
frames(symtabs, stack, i, buf) ==
  IF i >= 0
  THEN frames(symtabs, frame_cache(symtabs, stack, i), i - 1,
              Append(buf, frame_line(symtabs, stack, i)))
  ELSE [stack |-> stack, buf |-> buf]

\* First offset of the frame loop of tracer::trace(string&)
trace_from_mut(thr) == size(thr.stack) - 1

trace_from(thr) == thr.lag

\* thr->unwind() of tracer::trace(string&), after the closing line
trace_done_mut(thr) == thr

trace_done(thr) == unwind(thr)

\* catch (...) of tracer::trace(string&): tracer::unwind() on the current
\* thread, before the exception is thrown again
trace_failed_mut(thr) == thr

trace_failed(thr) == unwind(thr)

\* tracer::trace(string&) applied to the entry thr of the current thread:
\* res is "ok" when the call returns and "throw" when it raises, buf is
\* what it appended to dst, thr is the entry when the call is left
trace_cur_mut(symtabs, thr) ==
  IF trace_from(unwind(thr)) >= 0
     /\ peek_throws(unwind(thr).stack, trace_from(unwind(thr)))
  THEN [res |-> "throw", buf |-> <<header_line(thr)>>, thr |-> unwind(thr)]
  ELSE LET r == frames(symtabs, unwind(thr).stack, trace_from(unwind(thr)),
                       <<header_line(thr)>>)
       IN  [res |-> "ok", buf |-> Append(r.buf, closing_line),
            thr |-> [unwind(thr) EXCEPT !.stack = r.stack]]

trace_cur(symtabs, thr) ==
  IF trace_from(thr) >= 0 /\ peek_throws(thr.stack, trace_from(thr))
  THEN \* thread::backtrace throws on the first pass; the handler unwinds
       [res |-> "throw", buf |-> <<header_line(thr)>>,
        thr |-> trace_failed(thr)]
  ELSE LET r == frames(symtabs, thr.stack, trace_from(thr),
                       <<header_line(thr)>>)
       IN  [res |-> "ok", buf |-> Append(r.buf, closing_line),
            thr |-> trace_done([thr EXCEPT !.stack = r.stack])]

\* First offset of the frame loop of tracer::trace(string&, pthread_t)
trace_id_from(thr) == size(thr.stack) - 1

\* process::get_thread(pthread_t): offset + 1 of the entry, 0 for NULL
get_thread(threads, id) == find_thread(threads, id, 1)

\* tracer::trace(string&, pthread_t) for handle id: nothing is appended when
\* no entry has the handle; otherwise the header, the frames from the
\* bottom of the stack to its top and the closing line. res, buf as for
\* trace_cur, threads is the thread list when the call is left
trace_id(symtabs, threads, id) ==
  LET k == get_thread(threads, id)
  IN  IF k = 0 THEN [res |-> "ok", buf |-> <<>>, threads |-> threads]
      ELSE IF trace_id_from(threads[k]) >= 0
              /\ peek_throws(threads[k].stack, trace_id_from(threads[k]))
      THEN [res |-> "throw", buf |-> <<header_line(threads[k])>>,
            threads |-> threads]
      ELSE LET r == frames(symtabs, threads[k].stack,
                           trace_id_from(threads[k]),
                           <<header_line(threads[k])>>)
           IN  [res |-> "ok", buf |-> Append(r.buf, closing_line),
                threads |-> [threads EXCEPT ![k].stack = r.stack]]

\* The line "\r\n" tracer::dump appends between two thread blocks
blank_line == [k |-> "blank", txt |-> "", src |-> NULL]

\* tracer::dump appends the separator after the block of offset i
separated(i, sz) == i < sz - 1

\* The loop of tracer::dump begun at offset i, sz the thread count it read:
\* process::get_thread(i), then trace by the handle of that entry
RECURSIVE dump_from(_, _, _, _, _)
dump_from(symtabs, threads, i, sz, buf) ==
  IF i < sz
  THEN LET r == trace_id(symtabs, threads, at(threads, i).handle)
       IN  dump_from(symtabs, r.threads, i + 1, sz,
                     buf \o r.buf \o
                       IF separated(i, sz) THEN <<blank_line>> ELSE <<>>)
  ELSE [res |-> "ok", buf |-> buf, threads |-> threads]

NoOut == [op |-> "none", res |-> "none", lag0 |-> 0, buf |-> <<>>,
   nerr |-> 0]

NoHook == [dir |-> "none", addr |-> 0, site |-> 0, i |-> 0, sz |-> 0,
           plg |-> 0, nerr |-> 0, hold |-> 0, id |-> NoThread]

\* What a hook leaves in out when it found no interface and returned
skipped(dir) == [op |-> dir, res |-> "noop", lag0 |-> 0, buf |-> <<>>,
                 nerr |-> 0]

----------------------------------------------------------------------------
(* Steps shared by the actions *)

OSThreads == DOMAIN pc

\* OS thread t runs host code (it is inside no tracer function)
idle(t) == exitStatus = Running /\ pc[t] = "idle"

\* The function OS thread t is executing, 0 when it is not instrumented
top(t) == IF real[t] = <<>> THEN 0 ELSE Head(real[t]).addr

\* thread::call_depth of the entry of OS thread t, 0 when it has none
depth(threads, t) ==
  IF find_thread(threads, t, 1) = 0 THEN 0
  ELSE size(threads[find_thread(threads, t, 1)].stack)

\* A diagnostic written to std::cerr: util::header asks the process for the
\* current thread when the interface is installed
report(threads, t) == IF interface THEN current_thread(threads, t) ELSE threads

\* The handlers inside the loop of begin_plugins / end_plugins: whatever a
\* pass raised is caught and counted as reported, the loop variables are
\* untouched
caught_mut(h, raised) ==
  IF raised
  THEN [h EXCEPT !.nerr = @ + 1, !.i = IF h.dir = "enter" THEN h.sz ELSE 0]
  ELSE h

caught(h, raised) == IF raised THEN [h EXCEPT !.nerr = @ + 1] ELSE h

\* Loop variables of begin_plugins / end_plugins after one pass
next_pass(h) == [h EXCEPT !.i = IF h.dir = "enter" THEN h.i + 1 ELSE h.i - 1,
                          !.plg = 0]

more_passes(h) == IF h.dir = "enter" THEN h.i < h.sz ELSE h.i >= 0

after_pass(h) == IF more_passes(next_pass(h)) THEN "get_plugin" ELSE "body"

\* Progress of the throw/catch cycle of a thread when it runs host code
\* that is not part of the cycle (a call, a return, a new throw)
strayed(c) == IF c = "caught" THEN "off" ELSE c

\* ... and when it reconciles its simulated stack (trace or unwind)
reconciled(c) == IF c = "caught" THEN "reconciled" ELSE c

----------------------------------------------------------------------------
(* The instrumentation hooks *)

\* The host calls the instrumented function addr on OS thread t and
\* __cyg_profile_func_enter runs up to the plugin loop
cyg_profile_func_enter(t, addr) ==
  /\ idle(t)
  /\ Len(real[t]) < MaxDepth
  /\ exc[t] \/ depth(m_threads, t) < MaxDepth
  /\ LET site == SiteOf(top(t))
         sz   == Len(m_plugins)
     IN  /\ real' = [real EXCEPT ![t] =
                       <<[addr |-> addr, site |-> site, rec |-> FALSE,
                          prop |-> exc[t]]>> \o @]
         /\ IF ~interface
            THEN /\ out' = [out EXCEPT ![t] = skipped("enter")]
                 /\ UNCHANGED <<pc, hook>>
            ELSE /\ out' = [out EXCEPT ![t] = NoOut]
                 /\ hook' = [hook EXCEPT ![t] =
                      [dir |-> "enter", addr |-> addr, site |-> site,
                       i |-> 0, sz |-> sz, plg |-> 0, nerr |-> 0,
                       hold |-> hold(t), id |-> NoThread]]
                 /\ pc' = [pc EXCEPT ![t] =
                      IF 0 < sz THEN "get_plugin" ELSE "body"]
  /\ cycle' = [cycle EXCEPT ![t] = strayed(@)]
  /\ UNCHANGED <<s_iface, m_symtabs, m_threads, m_plugins, s_lock, exc,
                 cblog, exitStatus, WITH_UNRESOLVED, s_global_lock>>

\* The top instrumented function of OS thread t is left, by a return or by
\* an exception unwinding it, and __cyg_profile_func_exit runs up to the
\* plugin loop
cyg_profile_func_exit(t) ==
  /\ idle(t)
  /\ real[t] # <<>>
  /\ LET sz == Len(m_plugins)
     IN  IF ~interface
         THEN /\ real' = [real EXCEPT ![t] = Tail(@)]
              /\ out' = [out EXCEPT ![t] = skipped("exit")]
              /\ UNCHANGED <<pc, hook>>
         ELSE /\ out' = [out EXCEPT ![t] = NoOut]
              /\ hook' = [hook EXCEPT ![t] =
                   [dir |-> "exit", addr |-> Head(real[t]).addr,
                    site |-> Head(real[t]).site, i |-> sz - 1, sz |-> sz,
                    plg |-> 0, nerr |-> 0, hold |-> hold(t),
                    id |-> NoThread]]
              /\ pc' = [pc EXCEPT ![t] =
                   IF sz - 1 >= 0 THEN "get_plugin" ELSE "body"]
              /\ UNCHANGED real
  /\ cycle' = [cycle EXCEPT ![t] = strayed(@)]
  /\ UNCHANGED <<s_iface, m_symtabs, m_threads, m_plugins, s_lock, exc,
                 cblog, exitStatus, WITH_UNRESOLVED, s_global_lock>>

\* tracer::get_plugin(u32) called by a pass of the plugin loop: under the
\* lock, list::at(i); an offset past the end throws, the loop catches and
\* reports it and goes on to the next pass
get_plugin(t) ==
  /\ exitStatus = Running
  /\ pc[t] = "get_plugin"
  /\ can_lock(t)
  /\ s_lock' = unlock(lock(s_lock, t), t)
  /\ IF at_throws(m_plugins, hook[t].i)
     THEN /\ hook' = [hook EXCEPT ![t] = next_pass(caught(@, TRUE))]
          /\ pc' = [pc EXCEPT ![t] = after_pass(caught(hook[t], TRUE))]
          /\ m_threads' = report(m_threads, t)
     ELSE /\ hook' = [hook EXCEPT ![t].plg = at(m_plugins, hook[t].i)]
          /\ pc' = [pc EXCEPT ![t] = "callback"]
          /\ UNCHANGED m_threads
  /\ UNCHANGED <<s_iface, m_symtabs, m_plugins, real, exc, cycle, cblog,
                 out, exitStatus, WITH_UNRESOLVED, s_global_lock>>

\* The plugin plg points to is still in the plugin list
alive_plugin(plugins, plg) == \E i \in 1..Len(plugins) : plugins[i] = plg

\* plugin::begin / plugin::end on the plugin the pass obtained; a callback
\* that raises is caught and reported by the loop. When the plugin was
\* deleted meanwhile (list::remove, list::clear), the pointer dangles: the
\* freed memory either still reads as the plugin did, and its callback is
\* called, or the call faults
plugin_callback(t) ==
  /\ exitStatus = Running
  /\ pc[t] = "callback"
  /\ \E raises \in BOOLEAN, reads \in BOOLEAN :
       /\ alive_plugin(m_plugins, hook[t].plg) => reads
       /\ ~reads => ~raises
       /\ IF reads
          THEN /\ cblog' = [cblog EXCEPT ![t] = Append(@, hook[t].plg)]
               /\ hook' = [hook EXCEPT ![t] = next_pass(caught(@, raises))]
               /\ pc' = [pc EXCEPT ![t] =
                    after_pass(caught(hook[t], raises))]
               /\ m_threads' =
                    IF raises THEN report(m_threads, t) ELSE m_threads
          ELSE /\ pc' = [pc EXCEPT ![t] = "fault"]
               /\ UNCHANGED <<cblog, hook, m_threads>>
  /\ UNCHANGED <<s_iface, m_symtabs, m_plugins, s_lock, real, exc, cycle,
                 out, exitStatus, WITH_UNRESOLVED, s_global_lock>>

\* The handlers of the try block of both hooks and the statements after
\* them: the error is written to std::cerr, then tracer::unlock() and
\* exit(EXIT_FAILURE)
hook_failed(l, t) == [lock |-> unlock(l, t), status |-> <<EXIT_FAILURE>>,
                      pc |-> "exited"]

\* The handler writes the error with operator<<, whose util::header asks
\* the process for the current thread again: when the thread has no entry
\* and the allocation of one fails again, std::bad_alloc leaves the handler
\* and the hook, into the instrumented function, past unlock and exit
report_throws(threads, t, again) ==
  interface /\ find_thread(threads, t, 1) = 0 /\ again

hook_escaped(l, t) == [lock |-> l, status |-> Running, pc |-> "escaped"]

\* What a hook leaves in out when it returns to the instrumented function:
\* its direction and the number of errors its plugin loop reported
done(h) == [op |-> h.dir, res |-> "ok", lag0 |-> 0, buf |-> <<>>,
            nerr |-> h.nerr]

\* What a hook leaves in out when its try block raised
fatal(dir, step) == [op |-> dir, res |-> step, lag0 |-> 0, buf |-> <<>>,
   nerr |-> 0]

\* The thread list after entry i was replaced by thr
set_thread(threads, i, thr) == [threads EXCEPT ![i] = thr]

\* The try block of __cyg_profile_func_enter: lock, current_thread(),
\* called(), unlock. A step that raises (an allocation fails) leads to the
\* handlers: report, unlock, exit(EXIT_FAILURE)
enter_body(t) ==
  /\ exitStatus = Running
  /\ pc[t] = "body"
  /\ hook[t].dir = "enter"
  /\ can_lock(t)
  /\ \E fail \in {"none", "current_thread", "called"}, again \in BOOLEAN :
       LET found == find_thread(m_threads, t, 1) # 0
           thrs  == current_thread(m_threads, t)
           i     == cur(m_threads, t)
           h     == IF fail = "current_thread"
                       /\ report_throws(m_threads, t, again)
                    THEN hook_escaped(lock(s_lock, t), t)
                    ELSE hook_failed(lock(s_lock, t), t)
       IN  /\ fail = "current_thread" => ~found
           /\ fail = "called" => ~exc[t]
           /\ fail # "current_thread" => ~again
           /\ IF fail = "none"
              THEN /\ m_threads' = set_thread(thrs, i,
                        called(thrs[i], exc[t], hook[t].addr, hook[t].site))
                   /\ real' = [real EXCEPT ![t] =
                        <<[Head(@) EXCEPT !.rec = ~exc[t]]>> \o Tail(@)]
                   /\ s_lock' = unlock(lock(s_lock, t), t)
                   /\ pc' = [pc EXCEPT ![t] = "idle"]
                   /\ hook' = [hook EXCEPT ![t] = NoHook]
                   /\ out' = [out EXCEPT ![t] = done(hook[t])]
                   /\ UNCHANGED exitStatus
              ELSE /\ m_threads' = IF h.pc = "escaped" THEN m_threads
                                   ELSE report(IF fail = "called" THEN thrs
                                               ELSE m_threads, t)
                   /\ s_lock' = h.lock
                   /\ exitStatus' = h.status
                   /\ pc' = [pc EXCEPT ![t] = h.pc]
                   /\ out' = [out EXCEPT ![t] = fatal("enter", fail)]
                   /\ UNCHANGED <<real, hook>>
  /\ cblog' = [cblog EXCEPT ![t] = <<>>]
  /\ UNCHANGED <<s_iface, m_symtabs, m_plugins, exc, cycle, WITH_UNRESOLVED,
                 s_global_lock>>

\* The try block of __cyg_profile_func_exit: lock, current_thread(),
\* returned(), unlock; the handlers as above. The real frame is gone when
\* the hook returns
exit_body(t) ==
  /\ exitStatus = Running
  /\ pc[t] = "body"
  /\ hook[t].dir = "exit"
  /\ can_lock(t)
  /\ \E fail \in {"none", "current_thread"}, again \in BOOLEAN :
       LET found == find_thread(m_threads, t, 1) # 0
           thrs  == current_thread(m_threads, t)
           i     == cur(m_threads, t)
           h     == IF fail = "current_thread"
                       /\ report_throws(m_threads, t, again)
                    THEN hook_escaped(lock(s_lock, t), t)
                    ELSE hook_failed(lock(s_lock, t), t)
       IN  /\ fail = "current_thread" => ~found
           /\ fail # "current_thread" => ~again
           /\ IF fail = "none"
              THEN /\ m_threads' = set_thread(thrs, i,
                                              returned(thrs[i], exc[t]))
                   /\ real' = [real EXCEPT ![t] = Tail(@)]
                   /\ s_lock' = unlock(lock(s_lock, t), t)
                   /\ pc' = [pc EXCEPT ![t] = "idle"]
                   /\ hook' = [hook EXCEPT ![t] = NoHook]
                   /\ out' = [out EXCEPT ![t] = done(hook[t])]
                   /\ UNCHANGED exitStatus
              ELSE /\ m_threads' = IF h.pc = "escaped" THEN m_threads
                                   ELSE report(m_threads, t)
                   /\ s_lock' = h.lock
                   /\ exitStatus' = h.status
                   /\ pc' = [pc EXCEPT ![t] = h.pc]
                   /\ out' = [out EXCEPT ![t] = fatal("exit", fail)]
                   /\ UNCHANGED <<real, hook>>
  /\ cblog' = [cblog EXCEPT ![t] = <<>>]
  /\ UNCHANGED <<s_iface, m_symtabs, m_plugins, exc, cycle, WITH_UNRESOLVED,
                 s_global_lock>>

----------------------------------------------------------------------------
(* Exceptions of the host program *)

\* Host code of OS thread t throws: std::uncaught_exception() turns true
throw(t) ==
  /\ idle(t)
  /\ ~exc[t]
  /\ exc' = [exc EXCEPT ![t] = TRUE]
  /\ cycle' = [cycle EXCEPT ![t] =
       IF @ \in {"sync", "reconciled"} THEN "prop" ELSE "off"]
  /\ out' = [out EXCEPT ![t] = NoOut]
  /\ UNCHANGED <<s_iface, m_symtabs, m_threads, m_plugins, s_lock, pc, hook,
                 real, cblog, exitStatus, WITH_UNRESOLVED, s_global_lock>>

\* A handler of the function now on top of the real stack (or of code below
\* every instrumented function) catches the exception. Functions entered
\* while the exception propagated (destructors run by the unwinder) have
\* returned by then
catch(t) ==
  /\ idle(t)
  /\ exc[t]
  /\ IF real[t] = <<>> THEN TRUE ELSE ~Head(real[t]).prop
  /\ exc' = [exc EXCEPT ![t] = FALSE]
  /\ cycle' = [cycle EXCEPT ![t] = IF @ = "prop" THEN "caught" ELSE "off"]
  /\ out' = [out EXCEPT ![t] = NoOut]
  /\ UNCHANGED <<s_iface, m_symtabs, m_threads, m_plugins, s_lock, pc, hook,
                 real, cblog, exitStatus, WITH_UNRESOLVED, s_global_lock>>

----------------------------------------------------------------------------
(* Public operations of the tracer *)

\* tracer::trace(string&) called by OS thread t
trace(t) ==
  /\ idle(t)
  /\ interface
  /\ can_lock(t)
  /\ LET thrs == current_thread(m_threads, t)
         i    == cur(m_threads, t)
         r    == trace_cur(m_symtabs, thrs[i])
     IN  /\ m_threads' = set_thread(thrs, i, r.thr)
         /\ s_lock' =
              IF r.res = "throw"
              THEN \* the handler: unwind() locks and unlocks, then unlock()
                   unlock(unlock(lock(lock(s_lock, t), t), t), t)
              ELSE unlock(lock(s_lock, t), t)
         /\ out' = [out EXCEPT ![t] =
              [op |-> "trace", res |-> r.res, lag0 |-> thrs[i].lag,
               buf |-> r.buf, nerr |-> 0, depth0 |-> size(thrs[i].stack),
               hold0 |-> hold(t), stack0 |-> thrs[i].stack]]
  /\ cycle' = [cycle EXCEPT ![t] = reconciled(@)]
  /\ UNCHANGED <<s_iface, m_symtabs, m_plugins, pc, hook, real, exc, cblog,
                 exitStatus, WITH_UNRESOLVED, s_global_lock>>

\* tracer::trace(string&, pthread_t) called by OS thread t for handle id
trace_by_handle(t, id) ==
  /\ idle(t)
  /\ interface
  /\ can_lock(t)
  /\ s_lock' = unlock(lock(s_lock, t), t)
  /\ LET r == trace_id(m_symtabs, m_threads, id)
     IN  /\ m_threads' = r.threads
         /\ out' = [out EXCEPT ![t] =
              [op |-> "trace_id", res |-> r.res, lag0 |-> 0, buf |-> r.buf,
               nerr |-> 0, id |-> id, depth0 |-> depth(m_threads, id),
               found |-> get_thread(m_threads, id) # 0]]
  /\ UNCHANGED <<s_iface, m_symtabs, m_plugins, pc, hook, real, exc, cycle,
                 cblog, exitStatus, WITH_UNRESOLVED, s_global_lock>>

\* tracer::dump called by OS thread t
dump(t) ==
  /\ idle(t)
  /\ interface
  /\ can_lock(t)
  /\ s_lock' = unlock(lock(s_lock, t), t)
  /\ LET r == dump_from(m_symtabs, m_threads, 0, Len(m_threads), <<>>)
     IN  /\ m_threads' = r.threads
         /\ out' = [out EXCEPT ![t] =
              [op |-> "dump", res |-> r.res, lag0 |-> 0, buf |-> r.buf,
               nerr |-> 0, threads0 |-> m_threads, threads1 |-> r.threads]]
  /\ UNCHANGED <<s_iface, m_symtabs, m_plugins, pc, hook, real, exc, cycle,
                 cblog, exitStatus, WITH_UNRESOLVED, s_global_lock>>

\* tracer::unwind called by OS thread t
tracer_unwind(t) ==
  /\ idle(t)
  /\ interface
  /\ can_lock(t)
  /\ s_lock' = unlock(lock(s_lock, t), t)
  /\ LET thrs == current_thread(m_threads, t)
         i    == cur(m_threads, t)
     IN  /\ m_threads' = set_thread(thrs, i, unwind(thrs[i]))
         /\ out' = [out EXCEPT ![t] =
              [op |-> "unwind", res |-> "ok", lag0 |-> thrs[i].lag,
               buf |-> <<>>, nerr |-> 0, thr0 |-> thrs[i],
               prev |-> out[t].op]]
  /\ cycle' = [cycle EXCEPT ![t] = reconciled(@)]
  /\ UNCHANGED <<s_iface, m_symtabs, m_plugins, pc, hook, real, exc, cblog,
                 exitStatus, WITH_UNRESOLVED, s_global_lock>>

\* The number of the next plugin to register: plugins are numbered as
\* registered, a plugin registered later has a greater number than those
\* in the list
RECURSIVE next_plugin(_)
next_plugin(plugins) ==
  IF plugins = <<>> THEN 1
  ELSE IF Head(plugins) + 1 > next_plugin(Tail(plugins))
       THEN Head(plugins) + 1
  ELSE next_plugin(Tail(plugins))

\* tracer::add_plugin(modsym_t, modsym_t) called by OS thread t: the new
\* plugin is appended to the list
add_plugin(t) ==
  /\ idle(t)
  /\ interface
  /\ can_lock(t)
  /\ Len(m_plugins) < MaxPlugins
  /\ next_plugin(m_plugins) <= MaxPlugins
  /\ s_lock' = unlock(lock(s_lock, t), t)
  /\ m_plugins' = add(m_plugins, next_plugin(m_plugins))
  /\ out' = [out EXCEPT ![t] = NoOut]
  /\ UNCHANGED <<s_iface, m_symtabs, m_threads, pc, hook, real, exc, cycle,
                 cblog, exitStatus, WITH_UNRESOLVED, s_global_lock>>

\* tracer::remove_plugin(u32) called by OS thread t: under the lock,
\* list::remove(i); an offset past the end throws and the list is unchanged
remove_plugin(t, i) ==
  /\ idle(t)
  /\ interface
  /\ can_lock(t)
  /\ s_lock' = unlock(lock(s_lock, t), t)
  /\ m_plugins' = IF at_throws(m_plugins, i) THEN m_plugins
                  ELSE detach(m_plugins, i + 1)
  /\ out' = [out EXCEPT ![t] =
       [op |-> "remove_plugin",
        res |-> IF at_throws(m_plugins, i) THEN "throw" ELSE "ok",
        lag0 |-> 0, buf |-> <<>>, nerr |-> 0]]
  /\ UNCHANGED <<s_iface, m_symtabs, m_threads, pc, hook, real, exc, cycle,
                 cblog, exitStatus, WITH_UNRESOLVED, s_global_lock>>

\* tracer::remove_all_plugins(ALL) called by OS thread t: under the lock,
\* list::clear
remove_all_plugins(t) ==
  /\ idle(t)
  /\ interface
  /\ can_lock(t)
  /\ s_lock' = unlock(lock(s_lock, t), t)
  /\ m_plugins' = <<>>
  /\ out' = [out EXCEPT ![t] =
       [op |-> "remove_all_plugins", res |-> "ok", lag0 |-> 0,
        buf |-> <<>>, nerr |-> 0]]
  /\ UNCHANGED <<s_iface, m_symtabs, m_threads, pc, hook, real, exc, cycle,
                 cblog, exitStatus, WITH_UNRESOLVED, s_global_lock>>

\* tracer::lock called by host code of OS thread t
tracer_lock(t) ==
  /\ idle(t)
  /\ can_lock(t)
  /\ hold(t) < MaxHold
  /\ s_lock' = lock(s_lock, t)
  /\ UNCHANGED <<s_iface, m_symtabs, m_threads, m_plugins, pc, hook, real,
                 exc, cycle, cblog, out, exitStatus, WITH_UNRESOLVED,
                 s_global_lock>>

\* tracer::unlock called by host code of OS thread t
tracer_unlock(t) ==
  /\ idle(t)
  /\ hold(t) > 0
  /\ s_lock' = unlock(s_lock, t)
  /\ UNCHANGED <<s_iface, m_symtabs, m_threads, m_plugins, pc, hook, real,
                 exc, cycle, cblog, out, exitStatus, WITH_UNRESOLVED,
                 s_global_lock>>

----------------------------------------------------------------------------
(* util::s_global_lock and the stream insertion operator of the tracer *)

\* util::unlock (pthread_mutex_unlock on a recursive mutex): a thread that
\* does not own the mutex gets EPERM and the mutex is as before
global_unlock(l, t) == IF l.owner = t THEN unlock(l, t) ELSE l

\* util::lock returns at once for OS thread t
can_lock_global(t) == s_global_lock.owner \in {NoThread, t}

\* util::lock called by host code of OS thread t
util_lock(t) ==
  /\ idle(t)
  /\ can_lock_global(t)
  /\ s_global_lock.count < MaxHold
  /\ s_global_lock' = lock(s_global_lock, t)
  /\ UNCHANGED <<s_iface, m_symtabs, m_threads, m_plugins, s_lock, pc, hook,
                 real, exc, cycle, cblog, out, exitStatus, WITH_UNRESOLVED>>

\* util::unlock called by host code of OS thread t
util_unlock(t) ==
  /\ idle(t)
  /\ s_global_lock.owner = t
  /\ s_global_lock' = global_unlock(s_global_lock, t)
  /\ UNCHANGED <<s_iface, m_symtabs, m_threads, m_plugins, s_lock, pc, hook,
                 real, exc, cycle, cblog, out, exitStatus, WITH_UNRESOLVED>>

\* operator<<(std::ostream&, tracer&) called by OS thread t. When
\* tracer::trace returns: util::lock, the buffer is written, util::unlock.
\* When it throws: the handler writes the exception (operator<< of the
\* exception locks and unlocks the mutex), then rval.unwind() and
\* util::unlock(); the operator returns normally
operator_insert(t) ==
  /\ idle(t)
  /\ interface
  /\ can_lock(t)
  /\ can_lock_global(t)
  /\ LET thrs == current_thread(m_threads, t)
         i    == cur(m_threads, t)
         r    == trace_cur(m_symtabs, thrs[i])
     IN  /\ m_threads' = set_thread(thrs, i,
                                    IF r.res = "throw" THEN unwind(r.thr)
                                    ELSE r.thr)
         /\ s_lock' =
              IF r.res = "throw"
              THEN unlock(lock(
                     unlock(unlock(lock(lock(s_lock, t), t), t), t), t), t)
              ELSE unlock(lock(s_lock, t), t)
         /\ s_global_lock' =
              IF r.res = "throw"
              THEN global_unlock(
                     global_unlock(lock(s_global_lock, t), t), t)
              ELSE global_unlock(lock(s_global_lock, t), t)
         /\ out' = [out EXCEPT ![t] =
              [op |-> "insert", res |-> "ok", lag0 |-> thrs[i].lag,
               buf |-> IF r.res = "throw" THEN <<>> ELSE r.buf, nerr |-> 0,
               traced |-> r.res, held0 |-> s_global_lock.count]]
  /\ cycle' = [cycle EXCEPT ![t] = reconciled(@)]
  /\ UNCHANGED <<s_iface, m_symtabs, m_plugins, pc, hook, real, exc, cblog,
                 exitStatus, WITH_UNRESOLVED>>

----------------------------------------------------------------------------
(* Plugins backed by a shared object *)

\* The scope of the entry points, as the parts that string::split("::")
\* makes of it; NoScope is a NULL scope (C linkage)
NoScope == <<>>

Scopes == {NoScope, <<"ns">>, <<"ns", "cls">>}

\* The shared objects on disk and the dynamic symbols each exports
PluginFiles ==
  [c_so    |-> {"mod_enter", "mod_exit"},
   half_so |-> {"mod_enter"},
   ns_so   |-> {"_ZN2ns9mod_enterEPvS0_", "_ZN2ns8mod_exitEPvS0_"},
   cls_so  |-> {"_ZN2ns3cls9mod_enterEPvS1_", "mod_exit"}]

\* The paths the host passes: NULL, a file that does not exist, the files
PluginPaths == {NULL, "gone_so"} \cup DOMAIN PluginFiles

\* plugin::resolve, the loop over the parts of the scope: the length and
\* the text of each part
RECURSIVE mangle_parts(_)
mangle_parts(parts) ==
  IF parts = <<>> THEN ""
  ELSE ToString(Len(Head(parts))) \o Head(parts) \o mangle_parts(Tail(parts))

\* plugin::resolve, the name handed to dlsym
mangled(nm, scope) ==
  IF scope = NoScope THEN nm
  ELSE "_ZN" \o mangle_parts(scope) \o ToString(Len(nm)) \o nm
         \o "EPvS" \o ToString(Len(scope) - 1) \o "_"

\* dlopen fails
dlopen_throws(path) == path \notin DOMAIN PluginFiles

resolve_throws_mut(path, nm, scope) == nm \notin PluginFiles[path]

\* plugin::resolve throws: dlsym left an error
resolve_throws(path, nm, scope) == mangled(nm, scope) \notin PluginFiles[path]

\* plugin::plugin(path, scope) throws (the handler of the constructor
\* destroys the object and the exception is thrown again)
plugin_throws(path, scope) ==
  IF path = NULL THEN TRUE
  ELSE IF dlopen_throws(path) THEN TRUE
  ELSE IF resolve_throws(path, "mod_enter", scope) THEN TRUE
  ELSE resolve_throws(path, "mod_exit", scope)

\* tracer::add_plugin(path, scope) called by OS thread t: under the lock,
\* the new plugin is appended to the list; when its constructor throws the
\* handler releases the lock and throws again
add_plugin_dso(t, path, scope) ==
  /\ idle(t)
  /\ interface
  /\ can_lock(t)
  /\ \/ plugin_throws(path, scope)
     \/ Len(m_plugins) < MaxPlugins /\ next_plugin(m_plugins) <= MaxPlugins
  /\ s_lock' = unlock(lock(s_lock, t), t)
  /\ m_plugins' = IF plugin_throws(path, scope) THEN m_plugins
                  ELSE add(m_plugins, next_plugin(m_plugins))
  /\ out' = [out EXCEPT ![t] =
       [op |-> "add_plugin",
        res |-> IF plugin_throws(path, scope) THEN "throw" ELSE "ok",
        lag0 |-> 0, buf |-> <<>>, nerr |-> 0,
        path |-> path, scope |-> scope, plugins0 |-> m_plugins]]
  /\ UNCHANGED <<s_iface, m_symtabs, m_threads, pc, hook, real, exc, cycle,
                 cblog, exitStatus, WITH_UNRESOLVED, s_global_lock>>

----------------------------------------------------------------------------
(* The library constructor *)

\* tracer::__on_lib_load up to the assignment of s_iface: the tracer object
\* with its empty plugin list and its process with empty lists
on_lib_load_new ==
  /\ exitStatus = Running
  /\ ~s_iface
  /\ s_iface' = TRUE
  /\ m_plugins' = <<>>
  /\ m_symtabs' = <<>>
  /\ m_threads' = <<>>
  /\ UNCHANGED <<s_lock, pc, hook, real, exc, cycle, cblog, out, exitStatus,
                 WITH_UNRESOLVED, s_global_lock>>

\* ... its add_module call for the executable; when the symtab constructor
\* throws (loaded = FALSE) the handlers report it and call
\* exit(EXIT_FAILURE)
on_lib_load_exe ==
  /\ exitStatus = Running
  /\ s_iface
  /\ module_count(m_symtabs) = 0
  /\ \E loaded \in BOOLEAN, image \in ExeImages :
       IF loaded
       THEN m_symtabs' = add(m_symtabs, image) /\ UNCHANGED exitStatus
       ELSE exitStatus' = <<EXIT_FAILURE>> /\ UNCHANGED m_symtabs
  /\ UNCHANGED <<s_iface, m_threads, m_plugins, s_lock, pc, hook, real, exc,
                 cycle, cblog, out, WITH_UNRESOLVED, s_global_lock>>

\* tracer::on_dso_load for the shared object of the host program that
\* passes the filters: its symbol table is added
on_dso_load ==
  /\ exitStatus = Running
  /\ s_iface
  /\ module_count(m_symtabs) = 1
  /\ m_symtabs' = add(m_symtabs, LibTable)
  /\ UNCHANGED <<s_iface, m_threads, m_plugins, s_lock, pc, hook, real, exc,
                 cycle, cblog, out, exitStatus, WITH_UNRESOLVED,
                 s_global_lock>>

----------------------------------------------------------------------------
(* Discovery of the shared objects by the library constructor *)

\* Entries of INSTRUMENT_LIBS: the expression, whether regcomp accepts it
\* and the paths of the host process regexec finds it in
F_lib == [expr |-> "lib", ok |-> TRUE, paths |-> {"lib", "lib2"}]

F_lib2 == [expr |-> "lib2$", ok |-> TRUE, paths |-> {"lib2"}]

F_foo == [expr |-> "libfoo", ok |-> TRUE, paths |-> {}]

F_bad == [expr |-> "(", ok |-> FALSE, paths |-> {}]

\* The environment of the host process: INSTRUMENT_LIBS unset, or set to a
\* value with the given entries
LibsEnvs ==
  {[set |-> FALSE, entries |-> <<>>]} \cup
  {[set |-> TRUE, entries |-> e] :
     e \in {<<>>, <<F_lib2>>, <<F_foo, F_lib>>, <<F_foo>>, <<F_bad>>,
            <<F_lib2, F_bad>>, <<F_bad, F_lib>>}}

\* The objects dl_iterate_phdr can report: name, segment count, the
\* address its symbols are loaded at and whether the symtab constructor
\* succeeds on the file (it throws on a file it cannot open or that is
\* stripped)
Dsos ==
  {[path |-> "", phnum |-> 1, base |-> 0, loads |-> TRUE]} \cup
  {[path |-> pth, phnum |-> n, base |-> 3, loads |-> l] :
     pth \in {"lib", "lib2"}, n \in {0, 1}, l \in BOOLEAN}

\* The lists of objects dl_iterate_phdr can walk
DsoLists ==
  UNION {[1..n -> Dsos] : n \in 0..MaxObjects}

\* symtab::symtab(path, base) on the file of a shared object
symtab(dso) == IF dso.path = "lib" THEN LibTable ELSE Lib2Table

\* util::getenv(g_libs_env): NULL (null = TRUE) when the variable is unset,
\* else the list of its entries
getenv(env) == [null |-> ~env.set, list |-> env.entries]

\* string::match(expr): it throws when the expression does not compile
match_throws(pth, flt) == ~flt.ok

match(pth, flt) == pth \in flt.paths

\* The filter loop of tracer::on_dso_load begun at offset i: "found" when
\* an expression matches the path, "none" when the list is exhausted,
\* "throw" when an expression that is reached does not compile
RECURSIVE filter_scan(_, _, _)
filter_scan(pth, filters, i) ==
  IF i >= Len(filters) THEN "none"
  ELSE IF match_throws(pth, at(filters, i)) THEN "throw"
  ELSE IF match(pth, at(filters, i)) THEN "found"
  ELSE filter_scan(pth, filters, i + 1)

\* The filter decision of tracer::on_dso_load with argument libs
filtered_mut(pth, libs) ==
  IF libs.null \/ libs.list = <<>> THEN "found"
  ELSE filter_scan(pth, libs.list, 0)

filtered(pth, libs) ==
  IF libs.null THEN "found" ELSE filter_scan(pth, libs.list, 0)

\* What tracer::on_dso_load does with one object: "error" when an
\* exception reached its handlers (util::dbg_error is called), "filtered"
\* when the object is filtered out, "added" when add_module returned
dso_error_mut(dso, libs) == "added"

dso_error(dso, libs) == "error"

dso_outcome(dso, libs) ==
  IF dso.path = "" THEN dso_error(dso, libs)
  ELSE IF dso.phnum = 0 THEN dso_error(dso, libs)
  ELSE IF filtered(dso.path, libs) = "throw" THEN dso_error(dso, libs)
  ELSE IF filtered(dso.path, libs) = "none" THEN "filtered"
  ELSE IF ~dso.loads THEN dso_error(dso, libs)
  ELSE "added"

\* tracer::__on_lib_load on OS thread t, after the module of the executable
\* was added: util::getenv and the call of dl_iterate_phdr
dl_iterate_phdr(t, env, objs) ==
  /\ idle(t)
  /\ s_iface
  /\ m_symtabs = <<ExeTable>>
  /\ out[t].op = "none"
  /\ pc' = [pc EXCEPT ![t] = "on_dso_load"]
  /\ hook' = [hook EXCEPT ![t] =
       [dir |-> "dl_iterate_phdr", i |-> 0, env |-> env,
        libs |-> getenv(env), objs |-> objs, events |-> <<>>, rets |-> <<>>]]
  /\ UNCHANGED <<s_iface, m_symtabs, m_threads, m_plugins, s_lock, real, exc,
                 cycle, cblog, out, exitStatus, WITH_UNRESOLVED,
                 s_global_lock>>

\* tracer::on_dso_load called by dl_iterate_phdr for the next object; it
\* returns 0 on every path
on_dso_load_object(t) ==
  /\ exitStatus = Running
  /\ pc[t] = "on_dso_load"
  /\ hook[t].i < Len(hook[t].objs)
  /\ LET dso == at(hook[t].objs, hook[t].i)
         e   == dso_outcome(dso, hook[t].libs)
     IN  /\ m_symtabs' = IF e = "added" THEN add(m_symtabs, symtab(dso))
                         ELSE m_symtabs
         /\ hook' = [hook EXCEPT ![t].i = @ + 1,
                                 ![t].events = Append(@, e),
                                 ![t].rets = Append(@, 0)]
  /\ UNCHANGED <<s_iface, m_threads, m_plugins, s_lock, pc, real, exc, cycle,
                 cblog, out, exitStatus, WITH_UNRESOLVED, s_global_lock>>

\* dl_iterate_phdr has walked every object (every callback returned 0) and
\* tracer::__on_lib_load returns
on_lib_load_return(t) ==
  /\ exitStatus = Running
  /\ pc[t] = "on_dso_load"
  /\ hook[t].i >= Len(hook[t].objs)
  /\ pc' = [pc EXCEPT ![t] = "idle"]
  /\ out' = [out EXCEPT ![t] =
       [op |-> "on_lib_load", res |-> "ok", lag0 |-> 0, buf |-> <<>>,
        nerr |-> 0, env |-> hook[t].env, objs |-> hook[t].objs,
        events |-> hook[t].events, rets |-> hook[t].rets]]
  /\ hook' = [hook EXCEPT ![t] = NoHook]
  /\ UNCHANGED <<s_iface, m_symtabs, m_threads, m_plugins, s_lock, real, exc,
                 cycle, cblog, exitStatus, WITH_UNRESOLVED, s_global_lock>>

----------------------------------------------------------------------------
(* Operations of the process on its module list *)

\* process::add_module(path, base) called by OS thread t: the symbol table
\* is loaded and added to the module list; when the symtab constructor
\* throws (loaded = FALSE) the exception leaves add_module and nothing is
\* added
process_add_module(t, image, loaded) ==
  /\ idle(t)
  /\ s_iface
  /\ module_count(m_symtabs) < MaxModules
  /\ m_symtabs' = IF loaded THEN add(m_symtabs, image) ELSE m_symtabs
  /\ out' = [out EXCEPT ![t] =
       [op |-> "add_module", res |-> IF loaded THEN "ok" ELSE "throw",
        lag0 |-> 0, buf |-> <<>>, nerr |-> 0, image |-> image]]
  /\ UNCHANGED <<s_iface, m_threads, m_plugins, s_lock, pc, hook, real, exc,
                 cycle, cblog, exitStatus, WITH_UNRESOLVED, s_global_lock>>

\* process::lookup(addr) called by OS thread t
process_lookup(t, addr) ==
  /\ idle(t)
  /\ s_iface
  /\ out' = [out EXCEPT ![t] =
       [op |-> "lookup", res |-> "ok", lag0 |-> 0, buf |-> <<>>, nerr |-> 0,
        addr |-> addr, name |-> lookup(m_symtabs, addr)]]
  /\ UNCHANGED <<s_iface, m_symtabs, m_threads, m_plugins, s_lock, pc, hook,
                 real, exc, cycle, cblog, exitStatus, WITH_UNRESOLVED,
                 s_global_lock>>

\* process::ilookup(addr, base) called by OS thread t
process_ilookup(t, addr) ==
  /\ idle(t)
  /\ s_iface
  /\ out' = [out EXCEPT ![t] =
       [op |-> "ilookup", res |-> "ok", lag0 |-> 0, buf |-> <<>>, nerr |-> 0,
        addr |-> addr, path |-> ilookup(m_symtabs, addr)[1],
        base |-> ilookup(m_symtabs, addr)[2]]]
  /\ UNCHANGED <<s_iface, m_symtabs, m_threads, m_plugins, s_lock, pc, hook,
                 real, exc, cycle, cblog, exitStatus, WITH_UNRESOLVED,
                 s_global_lock>>

----------------------------------------------------------------------------
(* Operations of the process on its thread list *)

\* process::fork_thread called by OS thread t, up to the return of
\* pthread_create: OS thread id starts running
fork_thread_create(t, id) ==
  /\ idle(t)
  /\ pc[id] = "unborn"
  /\ pc' = [pc EXCEPT ![t] = "fork_thread", ![id] = "idle"]
  /\ hook' = [hook EXCEPT ![t] = [NoHook EXCEPT !.dir = "fork_thread",
                                                !.id = id]]
  /\ UNCHANGED <<s_iface, m_symtabs, m_threads, m_plugins, s_lock, real, exc,
                 cycle, cblog, out, exitStatus, WITH_UNRESOLVED,
                 s_global_lock>>

\* ... and its remaining statements: new thread(id, nm) is added to the
\* thread list
fork_thread_add(t) ==
  /\ exitStatus = Running
  /\ pc[t] = "fork_thread"
  /\ m_threads' = add(m_threads, new_thread(hook[t].id, "worker"))
  /\ pc' = [pc EXCEPT ![t] = "idle"]
  /\ hook' = [hook EXCEPT ![t] = NoHook]
  /\ UNCHANGED <<s_iface, m_symtabs, m_plugins, s_lock, real, exc, cycle,
                 cblog, out, exitStatus, WITH_UNRESOLVED, s_global_lock>>

\* process::cleanup_thread(id) called by OS thread t
process_cleanup_thread(t, id) ==
  /\ idle(t)
  /\ interface
  /\ m_threads' = cleanup_thread(m_threads, id)
  /\ UNCHANGED <<s_iface, m_symtabs, m_plugins, s_lock, pc, hook, real, exc,
                 cycle, cblog, out, exitStatus, WITH_UNRESOLVED,
                 s_global_lock>>

\* process::cleanup_zombie_threads called by OS thread t
process_cleanup_zombie_threads(t) ==
  /\ idle(t)
  /\ interface
  /\ m_threads' = cleanup_zombie_threads(m_threads, 1)
  /\ out' = [out EXCEPT ![t] =
       [op |-> "cleanup_zombie_threads", res |-> "ok", lag0 |-> 0,
        buf |-> <<>>, nerr |-> 0, threads0 |-> m_threads,
        threads1 |-> cleanup_zombie_threads(m_threads, 1)]]
  /\ UNCHANGED <<s_iface, m_symtabs, m_plugins, s_lock, pc, hook, real, exc,
                 cycle, cblog, exitStatus, WITH_UNRESOLVED, s_global_lock>>

\* tracer::trace(string&, pthread_t) called by OS thread t for handle id, up
\* to the frame loop: lock, get_thread(id); with no entry unlock and return,
\* else the pointer thr to the entry is kept (hook[t].thr is what it points
\* to) and the header is appended
trace_id_lookup(t, id) ==
  /\ idle(t)
  /\ interface
  /\ can_lock(t)
  /\ LET k == get_thread(m_threads, id)
     IN  IF k = 0
         THEN /\ s_lock' = unlock(lock(s_lock, t), t)
              /\ out' = [out EXCEPT ![t] =
                   [op |-> "trace_id", res |-> "ok", lag0 |-> 0,
                    buf |-> <<>>, nerr |-> 0, id |-> id, depth0 |-> 0,
                    found |-> FALSE]]
              /\ UNCHANGED <<pc, hook>>
         ELSE /\ s_lock' = lock(s_lock, t)
              /\ pc' = [pc EXCEPT ![t] = "trace_id"]
              /\ hook' = [hook EXCEPT ![t] =
                   [dir |-> "trace_id", id |-> id, thr |-> m_threads[k]]]
              /\ out' = [out EXCEPT ![t] = NoOut]
  /\ UNCHANGED <<s_iface, m_symtabs, m_threads, m_plugins, real, exc, cycle,
                 cblog, exitStatus, WITH_UNRESOLVED, s_global_lock>>

\* The entry thr points to is still in the thread list
alive(threads, id, thr) ==
  get_thread(threads, id) # 0 /\ threads[get_thread(threads, id)] = thr

\* ... and its frame loop, closing line and unlock. When the entry was
\* deleted meanwhile (list::remove), thr dangles: the freed memory either
\* still reads as the entry did or the read faults
trace_id_render(t) ==
  /\ exitStatus = Running
  /\ pc[t] = "trace_id"
  /\ IF alive(m_threads, hook[t].id, hook[t].thr)
     THEN LET r == trace_id(m_symtabs, m_threads, hook[t].id)
          IN  /\ m_threads' = r.threads
              /\ s_lock' = unlock(s_lock, t)
              /\ pc' = [pc EXCEPT ![t] = "idle"]
              /\ out' = [out EXCEPT ![t] =
                   [op |-> "trace_id", res |-> r.res, lag0 |-> 0,
                    buf |-> r.buf, nerr |-> 0, id |-> hook[t].id,
                    depth0 |-> size(hook[t].thr.stack), found |-> TRUE]]
     ELSE \E reads \in BOOLEAN :
            /\ IF reads
               THEN LET r == trace_id(m_symtabs, <<hook[t].thr>>, hook[t].id)
                    IN  /\ s_lock' = unlock(s_lock, t)
                        /\ pc' = [pc EXCEPT ![t] = "idle"]
                        /\ out' = [out EXCEPT ![t] =
                             [op |-> "trace_id", res |-> r.res, lag0 |-> 0,
                              buf |-> r.buf, nerr |-> 0, id |-> hook[t].id,
                              depth0 |-> size(hook[t].thr.stack),
                              found |-> FALSE]]
               ELSE /\ pc' = [pc EXCEPT ![t] = "fault"]
                    /\ UNCHANGED <<s_lock, out>>
            /\ UNCHANGED m_threads
  /\ hook' = [hook EXCEPT ![t] = NoHook]
  /\ UNCHANGED <<s_iface, m_symtabs, m_plugins, real, exc, cycle, cblog,
                 exitStatus, WITH_UNRESOLVED, s_global_lock>>

----------------------------------------------------------------------------
(* The tracing runtime of one OS thread, after the library was loaded *)

Init ==
  /\ s_iface = TRUE
  /\ m_symtabs = <<ExeTable, LibTable>>
  /\ m_threads = <<>>
  /\ m_plugins = <<>>
  /\ s_lock = [owner |-> NoThread, count |-> 0]
  /\ pc = [t \in {1} |-> "idle"]
  /\ hook = [t \in {1} |-> NoHook]
  /\ real = [t \in {1} |-> <<>>]
  /\ exc = [t \in {1} |-> FALSE]
  /\ cycle = [t \in {1} |-> "sync"]
  /\ cblog = [t \in {1} |-> <<>>]
  /\ out = [t \in {1} |-> NoOut]
  /\ exitStatus = Running
  /\ WITH_UNRESOLVED = TRUE
  /\ s_global_lock = [owner |-> NoThread, count |-> 0]

Next ==
  \E t \in OSThreads :
    \/ \E addr \in Callees(top(t)) : cyg_profile_func_enter(t, addr)
    \/ cyg_profile_func_exit(t)
    \/ enter_body(t)
    \/ exit_body(t)
    \/ throw(t)
    \/ catch(t)
    \/ trace(t)
    \/ \E id \in OSThreads : trace_by_handle(t, id)
    \/ tracer_unwind(t)

Spec == Init /\ [][Next]_vars

----------------------------------------------------------------------------
(* Plugin dispatch: two OS threads of a loaded process register plugins,   *)
(* take and release the lock, and run one instrumented function each       *)

InitPlugins ==
  /\ s_iface = TRUE
  /\ m_symtabs = <<ExeTable, LibTable>>
  /\ m_threads = <<>>
  /\ m_plugins = <<>>
  /\ s_lock = [owner |-> NoThread, count |-> 0]
  /\ pc = [t \in {1, 2} |-> "idle"]
  /\ hook = [t \in {1, 2} |-> NoHook]
  /\ real = [t \in {1, 2} |-> <<>>]
  /\ exc = [t \in {1, 2} |-> FALSE]
  /\ cycle = [t \in {1, 2} |-> "sync"]
  /\ cblog = [t \in {1, 2} |-> <<>>]
  /\ out = [t \in {1, 2} |-> NoOut]
  /\ exitStatus = Running
  /\ WITH_UNRESOLVED = TRUE
  /\ s_global_lock = [owner |-> NoThread, count |-> 0]

NextPlugins ==
  \E t \in OSThreads :
    \/ real[t] = <<>> /\ cyg_profile_func_enter(t, 1)
    \/ cyg_profile_func_exit(t)
    \/ get_plugin(t)
    \/ plugin_callback(t)
    \/ enter_body(t)
    \/ exit_body(t)
    \/ add_plugin(t)
    \/ tracer_lock(t)
    \/ tracer_unlock(t)

SpecPlugins == InitPlugins /\ [][NextPlugins]_vars

\* A step of a hook of OS thread t after its entry: a pass of the plugin
\* loop or the try block
hook_step(t) ==
  get_plugin(t) \/ plugin_callback(t) \/ enter_body(t) \/ exit_body(t)

\* Host code of OS thread t gives the lock up: its last tracer::unlock
release(t) == tracer_unlock(t) /\ s_lock'.count = 0

\* Fair scheduling: pthread_mutex_lock of a hook returns when the lock is
\* free again and again, a plugin callback returns, and host code that took
\* the lock gives it up
FairPlugins ==
  \A t \in {1, 2} :
    SF_vars(hook_step(t)) /\ SF_vars(tracer_unlock(t)) /\ SF_vars(release(t))

SpecPluginsFair == SpecPlugins /\ FairPlugins

----------------------------------------------------------------------------
(* Library load: one OS thread runs instrumented functions before, while   *)
(* and after the library constructor runs                                  *)

InitBoot ==
  /\ s_iface = FALSE
  /\ m_symtabs = <<>>
  /\ m_threads = <<>>
  /\ m_plugins = <<>>
  /\ s_lock = [owner |-> NoThread, count |-> 0]
  /\ pc = [t \in {1} |-> "idle"]
  /\ hook = [t \in {1} |-> NoHook]
  /\ real = [t \in {1} |-> <<>>]
  /\ exc = [t \in {1} |-> FALSE]
  /\ cycle = [t \in {1} |-> "sync"]
  /\ cblog = [t \in {1} |-> <<>>]
  /\ out = [t \in {1} |-> NoOut]
  /\ exitStatus = Running
  /\ WITH_UNRESOLVED = TRUE
  /\ s_global_lock = [owner |-> NoThread, count |-> 0]

NextBoot ==
  \/ on_lib_load_new
  \/ on_lib_load_exe
  \/ on_dso_load
  \/ \E t \in OSThreads :
       \/ \E addr \in Callees(top(t)) : cyg_profile_func_enter(t, addr)
       \/ cyg_profile_func_exit(t)
       \/ get_plugin(t)
       \/ plugin_callback(t)
       \/ enter_body(t)
       \/ exit_body(t)
       \/ add_plugin(t)

SpecBoot == InitBoot /\ [][NextBoot]_vars

----------------------------------------------------------------------------
(* The thread list: the main thread of a loaded process and the workers it *)
(* forks run an instrumented function, clean the thread list up and dump   *)
(* the stacks of all threads                                               *)

InitReg ==
  /\ s_iface = TRUE
  /\ m_symtabs = <<ExeTable, LibTable>>
  /\ m_threads = <<>>
  /\ m_plugins = <<>>
  /\ s_lock = [owner |-> NoThread, count |-> 0]
  /\ pc = [t \in {1, 2} |-> IF t = 1 THEN "idle" ELSE "unborn"]
  /\ hook = [t \in {1, 2} |-> NoHook]
  /\ real = [t \in {1, 2} |-> <<>>]
  /\ exc = [t \in {1, 2} |-> FALSE]
  /\ cycle = [t \in {1, 2} |-> "sync"]
  /\ cblog = [t \in {1, 2} |-> <<>>]
  /\ out = [t \in {1, 2} |-> NoOut]
  /\ exitStatus = Running
  /\ WITH_UNRESOLVED = TRUE
  /\ s_global_lock = [owner |-> NoThread, count |-> 0]

NextReg ==
  \E t \in OSThreads :
    \/ real[t] = <<>> /\ cyg_profile_func_enter(t, 1)
    \/ cyg_profile_func_exit(t)
    \/ enter_body(t)
    \/ exit_body(t)
    \/ \E id \in OSThreads : fork_thread_create(t, id)
    \/ fork_thread_add(t)
    \/ \E id \in OSThreads : process_cleanup_thread(t, id)
    \/ process_cleanup_zombie_threads(t)
    \/ dump(t)

SpecReg == InitReg /\ [][NextReg]_vars

----------------------------------------------------------------------------
(* Traces across threads: two OS threads of a loaded process run an        *)
(* instrumented function each, trace each other by handle and clean the    *)
(* thread list up                                                          *)

InitRace ==
  /\ s_iface = TRUE
  /\ m_symtabs = <<ExeTable, LibTable>>
  /\ m_threads = <<>>
  /\ m_plugins = <<>>
  /\ s_lock = [owner |-> NoThread, count |-> 0]
  /\ pc = [t \in {1, 2} |-> "idle"]
  /\ hook = [t \in {1, 2} |-> NoHook]
  /\ real = [t \in {1, 2} |-> <<>>]
  /\ exc = [t \in {1, 2} |-> FALSE]
  /\ cycle = [t \in {1, 2} |-> "sync"]
  /\ cblog = [t \in {1, 2} |-> <<>>]
  /\ out = [t \in {1, 2} |-> NoOut]
  /\ exitStatus = Running
  /\ WITH_UNRESOLVED = TRUE
  /\ s_global_lock = [owner |-> NoThread, count |-> 0]

NextRace ==
  \E t \in OSThreads :
    \/ real[t] = <<>> /\ cyg_profile_func_enter(t, 1)
    \/ cyg_profile_func_exit(t)
    \/ enter_body(t)
    \/ exit_body(t)
    \/ \E id \in OSThreads : trace_id_lookup(t, id)
    \/ trace_id_render(t)
    \/ \E id \in OSThreads : process_cleanup_thread(t, id)

SpecRace == InitRace /\ [][NextRace]_vars

----------------------------------------------------------------------------
(* Rendering: one OS thread of a process whose library was built with or   *)
(* without WITH_UNRESOLVED, and was loaded with or without the module of   *)
(* the shared object, runs instrumented functions and traces its stack     *)

InitRender ==
  /\ s_iface = TRUE
  /\ m_symtabs \in {<<ExeTable>>, <<ExeTable, LibTable>>}
  /\ m_threads = <<>>
  /\ m_plugins = <<>>
  /\ s_lock = [owner |-> NoThread, count |-> 0]
  /\ pc = [t \in {1} |-> "idle"]
  /\ hook = [t \in {1} |-> NoHook]
  /\ real = [t \in {1} |-> <<>>]
  /\ exc = [t \in {1} |-> FALSE]
  /\ cycle = [t \in {1} |-> "sync"]
  /\ cblog = [t \in {1} |-> <<>>]
  /\ out = [t \in {1} |-> NoOut]
  /\ exitStatus = Running
  /\ WITH_UNRESOLVED \in BOOLEAN
  /\ s_global_lock = [owner |-> NoThread, count |-> 0]

NextRender ==
  \E t \in OSThreads :
    \/ \E addr \in Callees(top(t)) : cyg_profile_func_enter(t, addr)
    \/ cyg_profile_func_exit(t)
    \/ enter_body(t)
    \/ exit_body(t)
    \/ trace(t)
    \/ \E id \in OSThreads : trace_by_handle(t, id)

SpecRender == InitRender /\ [][NextRender]_vars

----------------------------------------------------------------------------
(* Plugin removal: one OS thread of a loaded process registers and removes *)
(* plugins and runs an instrumented function                               *)

InitRemoval ==
  /\ s_iface = TRUE
  /\ m_symtabs = <<ExeTable, LibTable>>
  /\ m_threads = <<>>
  /\ m_plugins = <<>>
  /\ s_lock = [owner |-> NoThread, count |-> 0]
  /\ pc = [t \in {1} |-> "idle"]
  /\ hook = [t \in {1} |-> NoHook]
  /\ real = [t \in {1} |-> <<>>]
  /\ exc = [t \in {1} |-> FALSE]
  /\ cycle = [t \in {1} |-> "sync"]
  /\ cblog = [t \in {1} |-> <<>>]
  /\ out = [t \in {1} |-> NoOut]
  /\ exitStatus = Running
  /\ WITH_UNRESOLVED = TRUE
  /\ s_global_lock = [owner |-> NoThread, count |-> 0]

NextRemoval ==
  \E t \in OSThreads :
    \/ real[t] = <<>> /\ cyg_profile_func_enter(t, 1)
    \/ cyg_profile_func_exit(t)
    \/ get_plugin(t)
    \/ plugin_callback(t)
    \/ enter_body(t)
    \/ exit_body(t)
    \/ add_plugin(t)
    \/ \E i \in 0..(MaxPlugins - 1) : remove_plugin(t, i)
    \/ remove_all_plugins(t)

SpecRemoval == InitRemoval /\ [][NextRemoval]_vars

----------------------------------------------------------------------------
(* Stray exits: the library was loaded while OS thread 1 was inside        *)
(* instrumented functions (their enter hooks found no interface); the      *)
(* thread goes on calling, returning, throwing and catching, and its entry *)
(* is removed from the thread list at any time                             *)

\* The calls that were entered before the tracer was installed, the
\* innermost first
EarlyFrame(addr, caller) ==
  [addr |-> addr, site |-> SiteOf(caller), rec |-> FALSE, prop |-> FALSE]

EarlyNests ==
  {<<>>, <<EarlyFrame(1, 0)>>, <<EarlyFrame(2, 1), EarlyFrame(1, 0)>>}

InitStray ==
  /\ s_iface = TRUE
  /\ m_symtabs = <<ExeTable, LibTable>>
  /\ m_threads = <<>>
  /\ m_plugins = <<>>
  /\ s_lock = [owner |-> NoThread, count |-> 0]
  /\ pc = [t \in {1} |-> "idle"]
  /\ hook = [t \in {1} |-> NoHook]
  /\ real \in [{1} -> EarlyNests]
  /\ exc = [t \in {1} |-> FALSE]
  /\ cycle = [t \in {1} |-> "off"]
  /\ cblog = [t \in {1} |-> <<>>]
  /\ out = [t \in {1} |-> NoOut]
  /\ exitStatus = Running
  /\ WITH_UNRESOLVED = TRUE
  /\ s_global_lock = [owner |-> NoThread, count |-> 0]

NextStray ==
  \E t \in OSThreads :
    \/ \E addr \in Callees(top(t)) : cyg_profile_func_enter(t, addr)
    \/ cyg_profile_func_exit(t)
    \/ enter_body(t)
    \/ exit_body(t)
    \/ throw(t)
    \/ catch(t)
    \/ tracer_unwind(t)
    \/ \E id \in OSThreads : process_cleanup_thread(t, id)

SpecStray == InitStray /\ [][NextStray]_vars

----------------------------------------------------------------------------
(* Stream insertion: one OS thread of a loaded process runs instrumented   *)
(* functions, takes and releases the util mutex and writes the tracer to a *)
(* stream                                                                  *)

InitStream ==
  /\ s_iface = TRUE
  /\ m_symtabs = <<ExeTable, LibTable>>
  /\ m_threads = <<>>
  /\ m_plugins = <<>>
  /\ s_lock = [owner |-> NoThread, count |-> 0]
  /\ pc = [t \in {1} |-> "idle"]
  /\ hook = [t \in {1} |-> NoHook]
  /\ real = [t \in {1} |-> <<>>]
  /\ exc = [t \in {1} |-> FALSE]
  /\ cycle = [t \in {1} |-> "sync"]
  /\ cblog = [t \in {1} |-> <<>>]
  /\ out = [t \in {1} |-> NoOut]
  /\ exitStatus = Running
  /\ WITH_UNRESOLVED = TRUE
  /\ s_global_lock = [owner |-> NoThread, count |-> 0]

NextStream ==
  \E t \in OSThreads :
    \/ \E addr \in Callees(top(t)) : cyg_profile_func_enter(t, addr)
    \/ cyg_profile_func_exit(t)
    \/ enter_body(t)
    \/ exit_body(t)
    \/ util_lock(t)
    \/ util_unlock(t)
    \/ operator_insert(t)

SpecStream == InitStream /\ [][NextStream]_vars

----------------------------------------------------------------------------
(* Two threads side by side: two OS threads of a loaded process run an     *)
(* instrumented function each, throw and catch, unwind and trace their own *)
(* stacks                                                                  *)

InitPair ==
  /\ s_iface = TRUE
  /\ m_symtabs = <<ExeTable, LibTable>>
  /\ m_threads = <<>>
  /\ m_plugins = <<>>
  /\ s_lock = [owner |-> NoThread, count |-> 0]
  /\ pc = [t \in {1, 2} |-> "idle"]
  /\ hook = [t \in {1, 2} |-> NoHook]
  /\ real = [t \in {1, 2} |-> <<>>]
  /\ exc = [t \in {1, 2} |-> FALSE]
  /\ cycle = [t \in {1, 2} |-> "sync"]
  /\ cblog = [t \in {1, 2} |-> <<>>]
  /\ out = [t \in {1, 2} |-> NoOut]
  /\ exitStatus = Running
  /\ WITH_UNRESOLVED = TRUE
  /\ s_global_lock = [owner |-> NoThread, count |-> 0]

NextPair ==
  \E t \in OSThreads :
    \/ real[t] = <<>> /\ cyg_profile_func_enter(t, 1)
    \/ cyg_profile_func_exit(t)
    \/ enter_body(t)
    \/ exit_body(t)
    \/ throw(t)
    \/ catch(t)
    \/ trace(t)
    \/ tracer_unwind(t)

SpecPair == InitPair /\ [][NextPair]_vars

----------------------------------------------------------------------------
(* Cached names: one OS thread of a process that was loaded with the       *)
(* module of the executable runs instrumented functions, traces its stack  *)
(* and adds modules                                                        *)

InitCache ==
  /\ s_iface = TRUE
  /\ m_symtabs = <<ExeTable>>
  /\ m_threads = <<>>
  /\ m_plugins = <<>>
  /\ s_lock = [owner |-> NoThread, count |-> 0]
  /\ pc = [t \in {1} |-> "idle"]
  /\ hook = [t \in {1} |-> NoHook]
  /\ real = [t \in {1} |-> <<>>]
  /\ exc = [t \in {1} |-> FALSE]
  /\ cycle = [t \in {1} |-> "sync"]
  /\ cblog = [t \in {1} |-> <<>>]
  /\ out = [t \in {1} |-> NoOut]
  /\ exitStatus = Running
  /\ WITH_UNRESOLVED = TRUE
  /\ s_global_lock = [owner |-> NoThread, count |-> 0]

NextCache ==
  \E t \in OSThreads :
    \/ \E addr \in Callees(top(t)) : cyg_profile_func_enter(t, addr)
    \/ cyg_profile_func_exit(t)
    \/ enter_body(t)
    \/ exit_body(t)
    \/ trace(t)
    \/ \E id \in OSThreads : trace_by_handle(t, id)
    \/ \E image \in Images, loaded \in BOOLEAN :
         process_add_module(t, image, loaded)

SpecCache == InitCache /\ [][NextCache]_vars

----------------------------------------------------------------------------
(* Plugin registration: one OS thread of a loaded process registers        *)
(* plugins, inline or backed by a shared object, removes them all and      *)
(* takes and releases the lock                                             *)

InitRegister ==
  /\ s_iface = TRUE
  /\ m_symtabs = <<ExeTable, LibTable>>
  /\ m_threads = <<>>
  /\ m_plugins = <<>>
  /\ s_lock = [owner |-> NoThread, count |-> 0]
  /\ pc = [t \in {1} |-> "idle"]
  /\ hook = [t \in {1} |-> NoHook]
  /\ real = [t \in {1} |-> <<>>]
  /\ exc = [t \in {1} |-> FALSE]
  /\ cycle = [t \in {1} |-> "sync"]
  /\ cblog = [t \in {1} |-> <<>>]
  /\ out = [t \in {1} |-> NoOut]
  /\ exitStatus = Running
  /\ WITH_UNRESOLVED = TRUE
  /\ s_global_lock = [owner |-> NoThread, count |-> 0]

NextRegister ==
  \E t \in OSThreads :
    \/ add_plugin(t)
    \/ \E path \in PluginPaths, scope \in Scopes :
         add_plugin_dso(t, path, scope)
    \/ remove_all_plugins(t)
    \/ tracer_lock(t)
    \/ tracer_unlock(t)

SpecRegister == InitRegister /\ [][NextRegister]_vars

----------------------------------------------------------------------------
(* Plugin turnover: OS thread 1 of a loaded process runs an instrumented   *)
(* function while OS thread 2 registers plugins, removes them and takes    *)
(* and releases the lock                                                   *)

InitUnload ==
  /\ s_iface = TRUE
  /\ m_symtabs = <<ExeTable, LibTable>>
  /\ m_threads = <<>>
  /\ m_plugins = <<>>
  /\ s_lock = [owner |-> NoThread, count |-> 0]
  /\ pc = [t \in {1, 2} |-> "idle"]
  /\ hook = [t \in {1, 2} |-> NoHook]
  /\ real = [t \in {1, 2} |-> <<>>]
  /\ exc = [t \in {1, 2} |-> FALSE]
  /\ cycle = [t \in {1, 2} |-> "sync"]
  /\ cblog = [t \in {1, 2} |-> <<>>]
  /\ out = [t \in {1, 2} |-> NoOut]
  /\ exitStatus = Running
  /\ WITH_UNRESOLVED = TRUE
  /\ s_global_lock = [owner |-> NoThread, count |-> 0]

NextUnload ==
  \/ real[1] = <<>> /\ cyg_profile_func_enter(1, 1)
  \/ cyg_profile_func_exit(1)
  \/ get_plugin(1)
  \/ plugin_callback(1)
  \/ enter_body(1)
  \/ exit_body(1)
  \/ add_plugin(2)
  \/ \E i \in 0..(MaxPlugins - 1) : remove_plugin(2, i)
  \/ remove_all_plugins(2)
  \/ tracer_lock(2)
  \/ tracer_unlock(2)

SpecUnload == InitUnload /\ [][NextUnload]_vars

----------------------------------------------------------------------------
(* Discovery: the library constructor has added the module of the          *)
(* executable and walks the shared objects of the process                  *)

InitDso ==
  /\ s_iface = TRUE
  /\ m_symtabs = <<ExeTable>>
  /\ m_threads = <<>>
  /\ m_plugins = <<>>
  /\ s_lock = [owner |-> NoThread, count |-> 0]
  /\ pc = [t \in {1} |-> "idle"]
  /\ hook = [t \in {1} |-> NoHook]
  /\ real = [t \in {1} |-> <<>>]
  /\ exc = [t \in {1} |-> FALSE]
  /\ cycle = [t \in {1} |-> "sync"]
  /\ cblog = [t \in {1} |-> <<>>]
  /\ out = [t \in {1} |-> NoOut]
  /\ exitStatus = Running
  /\ WITH_UNRESOLVED = TRUE
  /\ s_global_lock = [owner |-> NoThread, count |-> 0]

NextDso ==
  \E t \in OSThreads :
    \/ \E env \in LibsEnvs, objs \in DsoLists : dl_iterate_phdr(t, env, objs)
    \/ on_dso_load_object(t)
    \/ on_lib_load_return(t)

SpecDso == InitDso /\ [][NextDso]_vars

----------------------------------------------------------------------------
(* The module list: the host adds modules to the process of a new tracer   *)
(* object and resolves addresses                                           *)

InitModules ==
  /\ s_iface = TRUE
  /\ m_symtabs = <<>>
  /\ m_threads = <<>>
  /\ m_plugins = <<>>
  /\ s_lock = [owner |-> NoThread, count |-> 0]
  /\ pc = [t \in {1} |-> "idle"]
  /\ hook = [t \in {1} |-> NoHook]
  /\ real = [t \in {1} |-> <<>>]
  /\ exc = [t \in {1} |-> FALSE]
  /\ cycle = [t \in {1} |-> "sync"]
  /\ cblog = [t \in {1} |-> <<>>]
  /\ out = [t \in {1} |-> NoOut]
  /\ exitStatus = Running
  /\ WITH_UNRESOLVED = TRUE
  /\ s_global_lock = [owner |-> NoThread, count |-> 0]

NextModules ==
  \E t \in OSThreads :
    \/ \E image \in Images, loaded \in BOOLEAN :
         process_add_module(t, image, loaded)
    \/ \E addr \in SymAddrs : process_lookup(t, addr)
    \/ \E addr \in SymAddrs : process_ilookup(t, addr)

SpecModules == InitModules /\ [][NextModules]_vars

----------------------------------------------------------------------------
(* What the claims speak about *)

\* The entry of OS thread t in the thread list (as process::current_thread
\* finds it), 0 when it has none
entry(t) == find_thread(m_threads, t, 1)

\* thread::lag of the entry of OS thread t, 0 when it has none
lag(t) == IF entry(t) = 0 THEN 0 ELSE m_threads[entry(t)].lag

\* The simulated stack of OS thread t, top first
stack(t) == IF entry(t) = 0 THEN <<>> ELSE m_threads[entry(t)].stack

\* A stack as the sequence of its <<callee, call site>> pairs
RECURSIVE frames_of(_)
frames_of(s) ==
  IF s = <<>> THEN <<>> ELSE <<<<Head(s).addr, Head(s).site>>>> \o frames_of(Tail(s))

\* The real frames of OS thread t whose enter hook pushed a frame
RECURSIVE recorded(_)
recorded(s) ==
  IF s = <<>> THEN <<>>
  ELSE IF Head(s).rec THEN <<Head(s)>> \o recorded(Tail(s))
  ELSE recorded(Tail(s))

\* Sequence s without its first n elements
RECURSIVE drop(_, _)
drop(s, n) == IF n <= 0 \/ s = <<>> THEN s ELSE drop(Tail(s), n - 1)

\* The texts of the lines of a trace buffer
RECURSIVE texts(_)
texts(buf) == IF buf = <<>> THEN <<>> ELSE <<Head(buf).txt>> \o texts(Tail(buf))

----------------------------------------------------------------------------
(* Claims checked on Spec *)

\* C1: as long as no exception was ever raised on a thread, between two
\* hooks its simulated stack is exactly the sequence of its unmatched
\* enters, most recent on top (so each exit removed the frame of the most
\* recent unmatched enter), its lag is 0, and once every enter is paired
\* with its exit the simulated stack is empty.
C1_LifoPairing ==
  \A t \in OSThreads :
    (cycle[t] = "sync" /\ pc[t] = "idle") =>
      /\ frames_of(stack(t)) = frames_of(recorded(real[t]))
      /\ lag(t) = 0
      /\ real[t] = <<>> => stack(t) = <<>>

\* C1 witness: an exit hook has just returned, every enter of the thread
\* is paired with its exit and the stack of its entry is empty
C1_Witness ==
  \E t \in OSThreads :
    /\ cycle[t] = "sync" /\ pc[t] = "idle"
    /\ out[t] = done([NoHook EXCEPT !.dir = "exit"])
    /\ real[t] = <<>>
    /\ entry(t) # 0
    /\ m_threads[entry(t)].status = THREAD_START
    /\ stack(t) = <<>>

\* C2 as claimed: once the exception is caught (the exit hooks of the
\* unwound frames have fired) lag is 0 and the simulated stack is the real
\* stack.
C2_Original ==
  \A t \in OSThreads :
    cycle[t] = "caught" =>
      lag(t) = 0 /\ frames_of(stack(t)) = frames_of(recorded(real[t]))

\* C2 as amended: once the exception is caught, lag counts the unwound
\* frames that are still on top of the simulated stack, and below them the
\* simulated stack is the real stack; lag is 0 and the simulated stack is
\* the real stack once unwind has run (by tracer::unwind or at the end of
\* tracer::trace) and from then on.
C2_CaughtThenUnwound ==
  \A t \in OSThreads :
    /\ cycle[t] = "caught" =>
         /\ lag(t) >= 0
         /\ lag(t) <= size(stack(t))
         /\ size(stack(t)) = lag(t) + Len(recorded(real[t]))
         /\ frames_of(drop(stack(t), lag(t))) = frames_of(recorded(real[t]))
    /\ (cycle[t] = "reconciled" /\ pc[t] = "idle") =>
         /\ lag(t) = 0
         /\ frames_of(stack(t)) = frames_of(recorded(real[t]))

\* C2 witness: f called g, g called h, h threw and f caught; lag is 2 and
\* g and h are still on the simulated stack
C2_Witness ==
  \E t \in OSThreads :
    /\ cycle[t] = "caught"
    /\ lag(t) = 2
    /\ frames_of(recorded(real[t])) = <<<<1, SiteOf(0)>>>>
    /\ frames_of(stack(t)) =
         <<<<3, SiteOf(2)>>, <<2, SiteOf(1)>>, <<1, SiteOf(0)>>>>

\* C3 as claimed: a trace of the current thread is rendered with lag 0, and
\* lag is 0 after every call to unwind.
C3_Original ==
  \A t \in OSThreads :
    /\ out[t].op = "trace" => out[t].lag0 = 0
    /\ out[t].op \in {"trace", "unwind"} => lag(t) = 0

\* C3 as amended: when unwind or a trace of the current thread is left, lag
\* is not positive, and it is 0 when it was not negative on entry; a
\* negative lag (enter hooks fired while an exception propagates) is left
\* as it is.
C3_LagAfterUnwind ==
  \A t \in OSThreads :
    out[t].op \in {"trace", "unwind"} =>
      /\ lag(t) <= 0
      /\ out[t].lag0 >= 0 => lag(t) = 0
      /\ out[t].lag0 < 0 => lag(t) = out[t].lag0

\* C3 witness: unwind or trace ran with a positive lag
C3_Witness ==
  \E t \in OSThreads :
    out[t].op \in {"trace", "unwind"} /\ out[t].lag0 > 0 /\ lag(t) = 0

\* C9: when a step of the try block of a hook raised, the hook has released
\* the lock it took and has called exit with a non-zero status; it has not
\* returned to the instrumented function.
C9_HookFailureIsFatal ==
  \A t \in OSThreads :
    out[t].res \in {"current_thread", "called"} =>
      /\ exitStatus # Running
      /\ exitStatus[1] # 0
      /\ pc[t] = "exited"
      /\ hold(t) = hook[t].hold

\* C10 as claimed: with no exception ever raised and f, g, h on the
\* simulated stack (h on top), trace appends the header, the lines of h, g
\* and f, and the closing line.
C10_Original ==
  \A t \in OSThreads :
    (/\ out[t].op = "trace"
     /\ cycle[t] = "sync"
     /\ frames_of(stack(t)) = <<<<3, SiteOf(2)>>, <<2, SiteOf(1)>>, <<1, SiteOf(0)>>>>)
    => /\ out[t].res = "ok"
       /\ texts(out[t].buf) = <<anonymous, "h", "g", "f", "}">>

\* C10 as amended: with no exception ever raised and a non-empty simulated
\* stack, trace appends the header, the line of the top frame only (with
\* the source location request for its call site in the caller's module)
\* and the closing line.
C10_TopFrameOnly ==
  \A t \in OSThreads :
    (out[t].op = "trace" /\ cycle[t] = "sync" /\ stack(t) # <<>>) =>
      /\ out[t].res = "ok"
      /\ Len(out[t].buf) = 3
      /\ out[t].buf[1] = [k |-> "header", txt |-> anonymous, src |-> t]
      /\ out[t].buf[2].k = "frame"
      /\ out[t].buf[2].txt = lookup(m_symtabs, Head(stack(t)).addr)
      /\ out[t].buf[3] = closing_line

\* C10 witness: the trace was taken inside h, called by g, called by f
C10_Witness ==
  \E t \in OSThreads :
    /\ out[t].op = "trace"
    /\ cycle[t] = "sync"
    /\ frames_of(stack(t)) = <<<<3, SiteOf(2)>>, <<2, SiteOf(1)>>, <<1, SiteOf(0)>>>>
    /\ texts(out[t].buf) = <<anonymous, "h", "}">>

\* The kinds of the lines of a trace buffer
RECURSIVE kinds(_)
kinds(buf) == IF buf = <<>> THEN <<>> ELSE <<Head(buf).k>> \o kinds(Tail(buf))

\* C11: a trace of a thread whose simulated stack is empty, of the current
\* thread or by handle, returns without error and has appended the header
\* line and the closing line and nothing else.
C11_EmptyStackTrace ==
  \A t \in OSThreads :
    /\ (out[t].op = "trace" /\ out[t].depth0 = 0) =>
         out[t].res = "ok" /\ kinds(out[t].buf) = <<"header", "closing">>
    /\ (out[t].op = "trace_id" /\ out[t].found /\ out[t].depth0 = 0) =>
         out[t].res = "ok" /\ kinds(out[t].buf) = <<"header", "closing">>

----------------------------------------------------------------------------
(* Claims checked on SpecPlugins *)

\* The numbers n..1
countdown(n) == [i \in 1..n |-> n + 1 - i]

\* C5: when the plugin loop of a hook is over, the callbacks it invoked are
\* those of the plugins registered when the hook began, each once, in
\* registration order for an enter hook and in reverse registration order
\* for an exit hook.
C5_PluginOrder ==
  \A t \in OSThreads :
    pc[t] = "body" =>
      cblog[t] = IF hook[t].dir = "enter"
                 THEN SubSeq(m_plugins, 1, hook[t].sz)
                 ELSE countdown(hook[t].sz)

\* C5 witness: two hooks whose plugin loops are over, an enter hook that
\* invoked P1, P2, P3 and an exit hook that invoked P3, P2, P1
C5_Witness ==
  \E t, u \in OSThreads :
    /\ pc[t] = "body" /\ hook[t].dir = "enter" /\ cblog[t] = <<1, 2, 3>>
    /\ pc[u] = "body" /\ hook[u].dir = "exit" /\ cblog[u] = <<3, 2, 1>>

C7_CallbacksOutsideLock ==
  \A t \in OSThreads :
    pc[t] = "callback" => hold(t) = hook[t].hold

\* C7 witness: a plugin callback of one thread is about to run while
\* another thread owns the lock
C7_Witness ==
  \E t, u \in OSThreads :
    /\ pc[t] = "callback"
    /\ hook[t].hold = 0
    /\ u # t
    /\ s_lock.owner = u

----------------------------------------------------------------------------
(* Claims checked on SpecReg *)

\* C4: no two entries of the thread list have the same handle.
C4_UniqueHandles ==
  \A i, j \in 1..Len(m_threads) :
    m_threads[i].handle = m_threads[j].handle => i = j

\* The kinds of the lines of the complete block of a thread entry
block_kinds(thr) ==
  <<"header">> \o [j \in 1..size(thr.stack) |-> "frame"] \o <<"closing">>

\* The kinds of the lines of the blocks of the entries i.. of a thread
\* list, one blank line between two blocks
RECURSIVE blocks_kinds(_, _)
blocks_kinds(threads, i) ==
  IF i > Len(threads) THEN <<>>
  ELSE block_kinds(threads[i])
       \o (IF i < Len(threads) THEN <<"blank">> ELSE <<>>)
       \o blocks_kinds(threads, i + 1)

\* The handles in the header lines of a buffer
RECURSIVE headers(_)
headers(buf) ==
  IF buf = <<>> THEN <<>>
  ELSE (IF Head(buf).k = "header" THEN <<Head(buf).src>> ELSE <<>>)
       \o headers(Tail(buf))

\* C12: a dump of a thread list of N entries returns without error and has
\* appended N complete blocks, the block of every entry in list order, with
\* one blank line between two consecutive blocks and none after the last;
\* it leaves the thread list with the same entries, each with the lag and
\* the frames it had.
C12_DumpBlocks ==
  \A t \in OSThreads :
    out[t].op = "dump" =>
      LET a == out[t].threads0
          b == out[t].threads1
      IN  /\ out[t].res = "ok"
          /\ Len(b) = Len(a)
          /\ \A i \in 1..Len(a) :
               /\ b[i].handle = a[i].handle
               /\ b[i].lag = a[i].lag
               /\ frames_of(b[i].stack) = frames_of(a[i].stack)
          /\ kinds(out[t].buf) = blocks_kinds(a, 1)
          /\ headers(out[t].buf) = [i \in 1..Len(a) |-> a[i].handle]
          /\ texts(SelectSeq(out[t].buf, LAMBDA l : l.k = "header")) =
               [i \in 1..Len(a) |->
                  IF a[i].name = NULL THEN anonymous ELSE a[i].name]

----------------------------------------------------------------------------
(* Claims checked on SpecModules *)

\* The modules of a module list whose symbol table holds address a
holders(symtabs, a) == {i \in 1..Len(symtabs) : exists(symtabs[i], a)}

\* C13: for every address a that lookup resolves to a name n, exactly one
\* module of the list holds a, ilookup returns the path and the base of
\* that module, and the symbol of that module at a is named n.
C13_LookupAgreesWithModule ==
  \A a \in SymAddrs :
    lookup(m_symtabs, a) # NULL =>
      /\ Cardinality(holders(m_symtabs, a)) = 1
      /\ \A i \in holders(m_symtabs, a) :
           /\ ilookup(m_symtabs, a) = <<m_symtabs[i].path, m_symtabs[i].base>>
           /\ addr2name(m_symtabs[i].table, a) = lookup(m_symtabs, a)

\* C14: when add_module has added module M, ilookup returns the path and
\* the base of M for every address of the symbol table of M.
C14_AddThenInverseLookup ==
  \A t \in OSThreads :
    (out[t].op = "add_module" /\ out[t].res = "ok") =>
      \A j \in 1..Len(out[t].image.table) :
        ilookup(m_symtabs, out[t].image.table[j].addr) =
          <<out[t].image.path, out[t].image.base>>

----------------------------------------------------------------------------
(* Claims checked on Spec: registration by the hooks *)

\* The entries of a thread list that have the handle id
entries_of(threads, id) == {i \in 1..Len(threads) : threads[i].handle = id}

\* C19: when an enter hook of an OS thread returns and the thread list had
\* no entry with the handle of the thread, the list gained one entry, the
\* only one with the handle, which is a new entry (status THREAD_INIT, lag
\* 0, empty stack) updated by the hook; when the list had an entry with the
\* handle, it has as many entries as before, the same ones with the handle.
C19_OneEntryPerThread ==
  [][\A t \in OSThreads :
       (pc[t] = "body" /\ hook[t].dir = "enter" /\ pc'[t] = "idle") =>
         /\ entries_of(m_threads, t) = {} =>
              /\ Len(m_threads') = Len(m_threads) + 1
              /\ Cardinality(entries_of(m_threads', t)) = 1
              /\ m_threads'[Len(m_threads')] =
                   called([handle |-> t, name |-> NULL, stack |-> <<>>,
                           lag |-> 0, status |-> THREAD_INIT],
                          exc[t], hook[t].addr, hook[t].site)
         /\ entries_of(m_threads, t) # {} =>
              /\ Len(m_threads') = Len(m_threads)
              /\ entries_of(m_threads', t) = entries_of(m_threads, t)]_vars

\* C19 witness: the second enter hook of an OS thread returned, and the
\* thread list has the one entry the first hook created, two frames deep
C19_Witness ==
  \E t \in OSThreads :
    /\ out[t].op = "enter"
    /\ out[t].res = "ok"
    /\ Len(m_threads) = 1
    /\ m_threads[1].handle = t
    /\ m_threads[1].status = THREAD_START
    /\ size(m_threads[1].stack) = 2

----------------------------------------------------------------------------
(* Claims checked on SpecPluginsFair: the hooks return *)

\* C21: under fair scheduling, a hook that is past its entry eventually
\* returns to the instrumented function, unless the process exits.
C21_HooksReturn ==
  \A t \in {1, 2} :
    (pc[t] \in {"get_plugin", "callback", "body"}) ~>
      (pc[t] = "idle" \/ exitStatus # Running)

----------------------------------------------------------------------------
(* Claims checked on SpecReg: zombie threads *)

\* An entry of the thread list is a zombie: its stack is empty and it has
\* started or finished
zombie(thr) ==
  size(thr.stack) = 0 /\ thr.status \in {THREAD_START, THREAD_EXIT}

\* How many entries of a thread list equal thr
count(threads, thr) ==
  Cardinality({i \in 1..Len(threads) : threads[i] = thr})

\* The entries of a thread list, as a set
entries(threads) == {threads[i] : i \in 1..Len(threads)}

\* C23: when cleanup_zombie_threads returns, the thread list has no entry
\* with an empty stack and status THREAD_START or THREAD_EXIT, and every
\* other entry it had is in the list as often as before, unchanged.
C23_ZombiesRemoved ==
  \A t \in OSThreads :
    out[t].op = "cleanup_zombie_threads" =>
      /\ \A thr \in entries(out[t].threads1) : ~zombie(thr)
      /\ \A thr \in entries(out[t].threads0) :
           ~zombie(thr) =>
             count(out[t].threads1, thr) = count(out[t].threads0, thr)
      /\ entries(out[t].threads1) \subseteq entries(out[t].threads0)

\* C23 witness: cleanup_zombie_threads removed the first of two entries, a
\* zombie, and kept the other
C23_Witness ==
  \E t \in OSThreads :
    /\ out[t].op = "cleanup_zombie_threads"
    /\ Len(out[t].threads0) = 2
    /\ zombie(out[t].threads0[1])
    /\ ~zombie(out[t].threads0[2])
    /\ out[t].threads1 = <<out[t].threads0[2]>>

\* An entry of the thread list is active: it has frames on its simulated
\* stack, or it has not run an instrumented function yet
active(thr) == size(thr.stack) > 0 \/ thr.status = THREAD_INIT

----------------------------------------------------------------------------
(* Claims checked on SpecRender *)

\* The name of a frame: the one cached in it, else the one the module list
\* resolves its callee address to, NULL when there is none
name_of(c) == IF c.name # NULL THEN c.name ELSE lookup(m_symtabs, c.addr)

\* The texts C26 expects for the frames of a stack (top first), from the
\* bottom frame to the top one
RECURSIVE frame_texts(_)
frame_texts(st) ==
  IF st = <<>> THEN <<>>
  ELSE frame_texts(Tail(st)) \o
       (IF name_of(Head(st)) # NULL THEN <<name_of(Head(st))>>
        ELSE IF WITH_UNRESOLVED THEN <<"UNRESOLVED">>
        ELSE <<>>)

\* C26: a trace by handle has, between the header and the closing line, one
\* line per frame of the stack that resolves, with its name, and for a
\* frame that does not resolve the line UNRESOLVED when the library was
\* built with WITH_UNRESOLVED and no line when it was not.
C26_UnresolvedFrames ==
  \A t \in OSThreads :
    (out[t].op = "trace_id" /\ out[t].found /\ out[t].res = "ok") =>
      texts(out[t].buf) =
        <<anonymous>> \o frame_texts(stack(out[t].id)) \o <<"}">>

----------------------------------------------------------------------------
(* Claims checked on SpecRemoval *)

\* C30: when the plugin loop of a hook is over, the callbacks it invoked
\* are those of the plugins in the list, each once, in the order they were
\* registered for an enter hook and in the reverse order for an exit hook.
C30_OrderAfterRemoval ==
  \A t \in OSThreads :
    pc[t] = "body" =>
      /\ Len(cblog[t]) = Len(m_plugins)
      /\ {cblog[t][i] : i \in 1..Len(cblog[t])} =
           {m_plugins[i] : i \in 1..Len(m_plugins)}
      /\ \A i, j \in 1..Len(cblog[t]) :
           i < j => IF hook[t].dir = "enter" THEN cblog[t][i] < cblog[t][j]
                    ELSE cblog[t][i] > cblog[t][j]

----------------------------------------------------------------------------
(* Claims checked on SpecRace *)

\* C22: while an OS thread renders the trace of a thread by handle, the
\* entry it renders is in the thread list, as it was when the trace found
\* it.
C22_TraceSeesLiveEntry ==
  \A t \in OSThreads :
    pc[t] = "trace_id" => alive(m_threads, hook[t].id, hook[t].thr)

----------------------------------------------------------------------------
(* Claims checked on SpecPlugins: accesses and the lock *)

\* A step of OS thread t that reads the plugin list or the thread list
\* without a call to tracer::lock: plugin_count() when a hook reaches the
\* plugin loop, and process::current_thread() called by util::header when
\* the loop reports what a callback raised
unlocked_access(t) ==
  \/ pc[t] = "idle" /\ pc'[t] \in {"get_plugin", "body"}
  \/ pc[t] = "callback" /\ hook'[t].nerr > hook[t].nerr

\* C20: no OS thread reads the plugin list or the thread list while another
\* OS thread holds the lock.
C20_AccessUnderLock ==
  [][\A t \in OSThreads :
       unlocked_access(t) => s_lock.owner \in {NoThread, t}]_vars

----------------------------------------------------------------------------
(* Claims checked on SpecReg: registration of a forked thread *)

\* C18: a step of fork_thread that registers a handle some entry of the
\* thread list already has leaves the thread list unchanged.
C18_DuplicateRegistrationRejected ==
  [][\A t \in OSThreads :
       (/\ pc[t] = "fork_thread"
        /\ pc'[t] = "idle"
        /\ get_thread(m_threads, hook[t].id) # 0) =>
         m_threads' = m_threads]_vars

----------------------------------------------------------------------------
(* Claims checked on Spec: the failure path of trace *)

C27_LagWhilePropagating ==
  [][\A t \in OSThreads :
       (pc[t] = "body" /\ pc'[t] = "idle" /\ exc[t]) =>
         LET before == current_thread(m_threads, t)[cur(m_threads, t)]
             after  == m_threads'[find_thread(m_threads', t, 1)]
         IN  /\ hook[t].dir = "enter" =>
                  after = [before EXCEPT !.lag = before.lag - 1]
             /\ hook[t].dir = "exit" =>
                  after = [before EXCEPT !.lag = before.lag + 1]]_vars

\* C27 witness: two enter hooks ran while an exception propagated from a
\* thread with lag 0, and lag is -2
C27_Witness ==
  \E t \in OSThreads :
    /\ exc[t]
    /\ out[t].op = "enter"
    /\ out[t].res = "ok"
    /\ lag(t) = -2
    /\ Len(real[t]) = size(stack(t)) + 2

\* C28: with no exception propagating, the entry of a thread has status
\* THREAD_START when its enter hook has returned, and status THREAD_EXIT
\* when its exit hook has returned and left its stack empty.
C28_StatusProtocol ==
  \A t \in OSThreads :
    (out[t].res = "ok" /\ ~exc[t] /\ entry(t) # 0) =>
      /\ out[t].op = "enter" => m_threads[entry(t)].status = THREAD_START
      /\ (out[t].op = "exit" /\ stack(t) = <<>>) =>
           m_threads[entry(t)].status = THREAD_EXIT

\* The names of the first n frames of a stack (top first), deepest first
RECURSIVE names_up(_, _)
names_up(st, n) ==
  IF n <= 0 \/ st = <<>> THEN <<>>
  ELSE names_up(Tail(st), n - 1) \o <<name_of(Head(st))>>

\* The texts of the frame lines of a trace buffer
RECURSIVE frame_lines(_)
frame_lines(buf) ==
  IF buf = <<>> THEN <<>>
  ELSE (IF Head(buf).k = "frame" THEN <<Head(buf).txt>> ELSE <<>>)
       \o frame_lines(Tail(buf))

\* C29 as claimed: the frame lines of a trace of the current thread are the
\* frames that remain on the simulated stack after unwinding, all of them.
C29_Original ==
  \A t \in OSThreads :
    (out[t].op = "trace" /\ out[t].res = "ok") =>
      frame_lines(out[t].buf) = names_up(stack(t), size(stack(t)))

\* C29 as amended: the frame lines of a trace of the current thread are the
\* frames at offsets lag down to 0 of the simulated stack as it was before
\* the call (the lagging frames, deepest first, after the frame below
\* them), none when lag was negative; the lagging frames are popped after
\* they were rendered, and the other frames remain.
C29_RendersThenUnwinds ==
  \A t \in OSThreads :
    (out[t].op = "trace" /\ out[t].res = "ok") =>
      /\ frame_lines(out[t].buf) = names_up(out[t].stack0, out[t].lag0 + 1)
      /\ frames_of(stack(t)) = frames_of(drop(out[t].stack0, out[t].lag0))

\* C29 witness: a trace ran with two lagging frames above the frame of f:
\* it rendered f, g and h and left f on the stack
C29_Witness ==
  \E t \in OSThreads :
    /\ out[t].op = "trace"
    /\ out[t].res = "ok"
    /\ out[t].lag0 = 2
    /\ frame_lines(out[t].buf) = <<"f", "g", "h">>
    /\ frames_of(stack(t)) = <<<<1, SiteOf(0)>>>>

\* C25: when unwind returns, the entry of the calling thread is as it was
\* before the call if lag was not positive, if the operation of the thread
\* before it was unwind, or if it was a trace of the current thread.
C25_UnwindIdempotent ==
  \A t \in OSThreads :
    (/\ out[t].op = "unwind"
     /\ \/ out[t].lag0 <= 0
        \/ out[t].prev \in {"unwind", "trace"}) =>
      m_threads[entry(t)] = out[t].thr0

\* C25 witness: after an exception was caught the thread called unwind
\* twice in a row, with frames left on its stack
C25_Witness ==
  \E t \in OSThreads :
    /\ out[t].op = "unwind"
    /\ out[t].prev = "unwind"
    /\ cycle[t] = "reconciled"
    /\ size(stack(t)) > 0

----------------------------------------------------------------------------
(* Claims checked on SpecDso *)

\* The shared object is one the environment selects: it has a path and a
\* segment, and INSTRUMENT_LIBS is unset or one of its entries matches
\* the path
wanted(dso, env) ==
  /\ dso.path # ""
  /\ dso.phnum > 0
  /\ env.set => \E k \in 1..Len(env.entries) : dso.path \in env.entries[k].paths

\* Processing the shared object fails: it has no path or no segment, an
\* entry that does not compile is reached before one that matches, or it
\* is selected and its symbol table cannot be loaded
failing(dso, env) ==
  \/ dso.path = ""
  \/ dso.phnum = 0
  \/ /\ env.set
     /\ \E k \in 1..Len(env.entries) :
          /\ ~env.entries[k].ok
          /\ \A j \in 1..(k - 1) : dso.path \notin env.entries[j].paths
  \/ wanted(dso, env) /\ ~dso.loads

\* The symbol tables of the objects of a list whose flag is set, in order
RECURSIVE tables_of(_, _, _)
tables_of(objs, keep, i) ==
  IF i > Len(objs) THEN <<>>
  ELSE (IF keep[i] THEN <<symtab(objs[i])>> ELSE <<>>)
       \o tables_of(objs, keep, i + 1)

----------------------------------------------------------------------------
(* Claims checked on SpecBoot *)

----------------------------------------------------------------------------
(* Claims checked on SpecRegister *)

\* C31: a registration of a shared object whose mod_enter or mod_exit,
\* mangled with the scope when there is one, is not among the symbols of
\* the object fails; a registration that fails throws, leaves the plugin
\* list as it was and leaves the lock as it was before the call.
C31_FailedRegistration ==
  [][\A t \in DOMAIN out :
       (out'[t].op = "add_plugin" /\ out'[t] # out[t]) =>
         LET o == out'[t]
         IN  /\ (/\ o.path \in DOMAIN PluginFiles
                 /\ \E nm \in {"mod_enter", "mod_exit"} :
                      mangled(nm, o.scope) \notin PluginFiles[o.path])
                  => o.res = "throw"
             /\ o.res = "throw" => m_plugins' = m_plugins /\ s_lock' = s_lock
             /\ o.res = "ok" => Len(m_plugins') = Len(m_plugins) + 1]_vars

\* A registration with a scope failed on an object that exports the
\* unscoped names, while the thread held the lock and a plugin was listed
C31_Witness ==
  \E t \in DOMAIN out :
    /\ out[t].op = "add_plugin"
    /\ out[t].res = "throw"
    /\ out[t].path = "c_so"
    /\ out[t].scope = <<"ns">>
    /\ out[t].plugins0 # <<>>
    /\ hold(t) > 0

----------------------------------------------------------------------------
(* Claims checked on SpecCache *)

\* C32: the name cached in a frame of a simulated stack is the name that
\* process::lookup gives for the address of the frame, in every state
\* after the trace that cached it, whatever modules were added since.
C32_CacheAgreesWithLookup ==
  \A i \in 1..Len(m_threads) :
    \A j \in 1..Len(m_threads[i].stack) :
      m_threads[i].stack[j].name # NULL =>
        m_threads[i].stack[j].name =
          lookup(m_symtabs, m_threads[i].stack[j].addr)

\* A trace cached "k" for the frame of address 3 when lib2 was the only
\* module holding it, and the module lib, which names that address "h",
\* was added afterwards
C32_Witness ==
  /\ out[1].op = "add_module"
  /\ out[1].res = "ok"
  /\ out[1].image = LibTable
  /\ \E i \in 1..Len(m_threads) :
       \E j \in 1..Len(m_threads[i].stack) :
         /\ m_threads[i].stack[j].addr = 3
         /\ m_threads[i].stack[j].name = "k"

----------------------------------------------------------------------------
(* Claims checked on Spec: lag and the depth of the stack *)

\* The lag of every entry of the thread list is at most the depth of its
\* simulated stack
lag_within_depth(threads) ==
  \A i \in 1..Len(threads) : threads[i].lag <= size(threads[i].stack)

\* C33: the lag of every thread is at most the depth of its simulated
\* stack, and a trace of the current thread never asks the stack for a
\* frame at an offset that is the depth of the stack or more.
C33_LagWithinDepth ==
  /\ lag_within_depth(m_threads)
  /\ \A t \in OSThreads :
       out[t].op = "trace" =>
         ~(out[t].lag0 >= 0 /\ out[t].lag0 >= out[t].depth0)

----------------------------------------------------------------------------
(* Claims checked on SpecStray *)

\* The exit hook that OS thread t is running has no frame to match: the
\* call it ends was entered before the tracer was installed, or the thread
\* has no entry in the thread list any more
unmatched(t) ==
  /\ pc[t] = "body"
  /\ hook[t].dir = "exit"
  /\ \/ ~Head(real[t]).rec /\ ~Head(real[t]).prop
     \/ find_thread(m_threads, t, 1) = 0

\* The simulated stack of OS thread t, empty when it has no entry
stack_of(threads, t) ==
  IF find_thread(threads, t, 1) = 0 THEN <<>>
  ELSE threads[find_thread(threads, t, 1)].stack

----------------------------------------------------------------------------
(* Claims checked on SpecPlugins: the lock across the operations *)

\* Hold count of OS thread t on the lock l
hold_of(l, t) == IF l.owner = t THEN l.count ELSE 0

\* Hold count of OS thread t when it entered the tracer function it is
\* running (its present count when it runs host code)
hold_on_entry(t) == IF pc[t] = "idle" THEN hold(t) ELSE hook[t].hold

\* C35: when an operation of the tracer or a hook is left by OS thread t,
\* by a return or by an exception, the thread holds the lock as many times
\* as when it entered; only tracer::lock and tracer::unlock, called by the
\* host, change the count.
C35_LockBalanced ==
  [][\A t \in OSThreads :
       (pc'[t] \in {"idle", "escaped"}
          /\ hold_of(s_lock', t) # hold_on_entry(t)) =>
         /\ pc[t] = "idle"
         /\ UNCHANGED <<m_threads, m_plugins, out, real, cblog>>]_vars

----------------------------------------------------------------------------
(* Claims checked on SpecStream *)

\* C36: operator<< of the tracer leaves the util mutex as it found it: it
\* unlocks the mutex as often as it locked it, on the path where the trace
\* is produced and on the path where producing it raises.
C36_InsertBalanced ==
  [][\A t \in OSThreads :
       (out'[t].op = "insert" /\ out'[t] # out[t]) =>
         s_global_lock' = s_global_lock]_vars

----------------------------------------------------------------------------
(* Claims checked on SpecUnload *)

\* C37: while a hook of one thread runs its plugin loop and another thread
\* removes plugins, the loop calls the callback of a plugin only while the
\* plugin is in the list, and a pass whose offset is past the end of the
\* list is caught and reported by the loop, which goes on.
C37_NoCallAfterRemoval ==
  [][\A t \in OSThreads :
       /\ (pc[t] = "callback" /\ cblog'[t] # cblog[t]) =>
            alive_plugin(m_plugins, hook[t].plg)
       /\ (pc[t] = "get_plugin" /\ hook'[t] # hook[t]
             /\ at_throws(m_plugins, hook[t].i)) =>
            /\ pc'[t] \in {"get_plugin", "body"}
            /\ hook'[t].nerr = hook[t].nerr + 1
            /\ cblog'[t] = cblog[t]]_vars

----------------------------------------------------------------------------
(* Claims checked on SpecPair *)

\* The entries of the thread list with handle id, in list order
states_of(threads, id) == SelectSeq(threads, LAMBDA e : e.handle = id)

\* OS thread t takes the step
acts(t) ==
  <<pc[t], hook[t], real[t], exc[t], cycle[t], cblog[t], out[t]>>' #
  <<pc[t], hook[t], real[t], exc[t], cycle[t], cblog[t], out[t]>>

\* C38: an enter hook, an exit hook, an unwind or a trace of the current
\* thread run by one OS thread leaves the stack, lag, status and name of
\* the entries of every other thread as they were, whatever the
\* interleaving.
C38_Isolation ==
  [][\A a \in OSThreads :
       acts(a) =>
         \A b \in OSThreads \ {a} :
           states_of(m_threads', b) = states_of(m_threads, b)]_vars

\* Both threads are registered with a frame on their stacks, and thread 1
\* has just traced its own stack
C38_Witness ==
  /\ out[1].op = "trace"
  /\ out[1].res = "ok"
  /\ depth(m_threads, 1) > 0
  /\ depth(m_threads, 2) > 0
  /\ find_thread(m_threads, 2, 1) < find_thread(m_threads, 1, 1)

============================================================================
